---- MODULE Spec2Model ----
(***************************************************************************)
(* scripts/configure.js: the start-up script that builds openclaw.json     *)
(* from the custom JSON (base), the persisted config and the environment.  *)
(*                                                                         *)
(* JSON values are tagged records (map / list / str / num / bool / null;   *)
(* undef and nan exist in memory only).  A string is a sequence of tokens: *)
(* single characters where the code inspects characters (digits, commas,   *)
(* blanks, slashes), whole words where the code only copies or compares.   *)
(***************************************************************************)
EXTENDS Integers, Sequences, FiniteSets, TLC

\* ------------------------------------------------------------------ values

Undef == [t |-> "undef"]
Null == [t |-> "null"]
NaN == [t |-> "nan"]
Str(s) == [t |-> "str", s |-> s]
Num(n) == [t |-> "num", n |-> n]
Bool(b) == [t |-> "bool", b |-> b]
List(l) == [t |-> "list", l |-> l]
Map(f) == [t |-> "map", m |-> f]
EmptyMap == Map(<<>>)

\* JavaScript truthiness of a value
Truthy(v) ==
  CASE v.t = "undef" -> FALSE
    [] v.t = "null" -> FALSE
    [] v.t = "nan" -> FALSE
    [] v.t = "str" -> v.s # <<>>
    [] v.t = "num" -> v.n # 0
    [] v.t = "bool" -> v.b
    [] OTHER -> TRUE

\* source[key] && typeof source[key] === "object" && !Array.isArray(source[key])
IsObj(v) == v.t = "map"

\* obj[k]; an array answers with a named property it was given
Get(obj, k) ==
  IF obj.t = "map"
  THEN IF k \in DOMAIN obj.m THEN obj.m[k] ELSE Undef
  ELSE IF obj.t = "list" /\ "p" \in DOMAIN obj /\ k \in DOMAIN obj.p THEN obj.p[k]
  ELSE Undef

\* the named properties an array carries next to its elements
Props(obj) == IF "p" \in DOMAIN obj THEN obj.p ELSE <<>>

\* obj[k] = x; on a string, number or boolean the assignment is dropped (the
\* script is not in strict mode), on an array it adds a named property
Put(obj, k, x) ==
  IF obj.t = "map"
  THEN Map([j \in DOMAIN obj.m \cup {k} |-> IF j = k THEN x ELSE obj.m[j]])
  ELSE IF obj.t = "list"
  THEN [t |-> "list", l |-> obj.l,
        p |-> [j \in DOMAIN Props(obj) \cup {k} |-> IF j = k THEN x ELSE Props(obj)[j]]]
  ELSE obj

\* delete obj[k]
Del(obj, k) == Map([j \in DOMAIN obj.m \ {k} |-> obj.m[j]])

\* a?.b?.c : the value at a path, undefined when a step is missing
RECURSIVE GetPath(_, _)
GetPath(v, p) ==
  IF p = <<>> THEN v
  ELSE IF v.t = "map" /\ Head(p) \in DOMAIN v.m
       THEN GetPath(v.m[Head(p)], Tail(p))
       ELSE IF v.t = "list" /\ "p" \in DOMAIN v /\ Head(p) \in DOMAIN v.p
            THEN GetPath(v.p[Head(p)], Tail(p))
            ELSE Undef

\* a.b.c = x, on parents that exist
RECURSIVE SetPath(_, _, _)
SetPath(v, p, x) ==
  IF p = <<>> THEN x
  ELSE Put(v, Head(p), SetPath(Get(v, Head(p)), Tail(p), x))

\* delete a.b.c, on parents that exist
RECURSIVE DelPath(_, _)
DelPath(v, p) ==
  IF Len(p) = 1 THEN Del(v, Head(p))
  ELSE Put(v, Head(p), DelPath(v.m[Head(p)], Tail(p)))

\* deepMerge with the sides swapped: a key of target keeps target's value
deepMergeKeepTarget(target, source) ==
  Map([key \in DOMAIN target.m \cup DOMAIN source.m |->
        IF key \in DOMAIN target.m THEN target.m[key] ELSE source.m[key]])

\* deepMerge that appends an array of source to an array of target
RECURSIVE deepMergeConcat(_, _)
deepMergeConcat(target, source) ==
  Map([key \in DOMAIN target.m \cup DOMAIN source.m |->
        IF key \notin DOMAIN source.m THEN target.m[key]
        ELSE IF IsObj(source.m[key]) /\ key \in DOMAIN target.m /\ IsObj(target.m[key])
             THEN deepMergeConcat(target.m[key], source.m[key])
             ELSE IF source.m[key].t = "list" /\ key \in DOMAIN target.m
                     /\ target.m[key].t = "list"
                  THEN List(target.m[key].l \o source.m[key].l)
                  ELSE source.m[key]])

\* deepMerge without the recursion: a key of source always replaces target's
deepMergeShallow(target, source) ==
  Map([key \in DOMAIN target.m \cup DOMAIN source.m |->
        IF key \in DOMAIN source.m THEN source.m[key] ELSE target.m[key]])

\* Deep merge: source into target. Arrays are replaced, not concatenated.
RECURSIVE deepMerge(_, _)
deepMerge(target, source) ==
  Map([key \in DOMAIN target.m \cup DOMAIN source.m |->
        IF key \notin DOMAIN source.m THEN target.m[key]
        ELSE IF IsObj(source.m[key]) /\ key \in DOMAIN target.m /\ IsObj(target.m[key])
             THEN deepMerge(target.m[key], source.m[key])
             ELSE source.m[key]])

\* a helper that starts every step of the path from an empty object
RECURSIVE ensureFresh(_, _)
ensureFresh(obj, keys) ==
  IF keys = <<>> THEN obj
  ELSE Put(obj, Head(keys), ensureFresh(EmptyMap, Tail(keys)))

\* Helper: ensure nested path exists (cur[k] = cur[k] || {})
RECURSIVE ensure(_, _)
ensure(obj, keys) ==
  IF keys = <<>> THEN obj
  ELSE LET k == Head(keys)
           cur == IF Truthy(Get(obj, k)) THEN Get(obj, k) ELSE EmptyMap
       IN Put(obj, k, ensure(cur, Tail(keys)))

\* ------------------------------------------------------------------ strings

Digits == <<"0", "1", "2", "3", "4", "5", "6", "7", "8", "9">>
IsDigit(c) == \E i \in 1..10 : Digits[i] = c
DigitVal(c) == (CHOOSE i \in 1..10 : Digits[i] = c) - 1

\* s.trim()
RECURSIVE TrimLeft(_)
TrimLeft(s) == IF s # <<>> /\ Head(s) = " " THEN TrimLeft(Tail(s)) ELSE s
RECURSIVE TrimRight(_)
TrimRight(s) ==
  IF s # <<>> /\ s[Len(s)] = " " THEN TrimRight(SubSeq(s, 1, Len(s) - 1)) ELSE s
Trim(s) == TrimRight(TrimLeft(s))

\* s.replace(/\/+$/, "")
RECURSIVE StripSlashes(_)
StripSlashes(s) ==
  IF s # <<>> /\ s[Len(s)] = "/" THEN StripSlashes(SubSeq(s, 1, Len(s) - 1)) ELSE s

\* the value of the longest prefix of digits of s, from acc; -1 when s starts with none
RECURSIVE DigitPrefix(_, _, _)
DigitPrefix(s, acc, seen) ==
  IF s # <<>> /\ IsDigit(Head(s))
  THEN DigitPrefix(Tail(s), acc * 10 + DigitVal(Head(s)), TRUE)
  ELSE IF seen THEN acc ELSE -1

\* parseInt(s, 10): leading blanks and a sign are skipped, the digits that follow
\* are read and the rest ignored; NaN when there are no digits
parseInt(s) ==
  LET t == TrimLeft(s)
      neg == t # <<>> /\ Head(t) = "-"
      u == IF t # <<>> /\ Head(t) \in {"-", "+"} THEN Tail(t) ELSE t
      n == DigitPrefix(u, 0, FALSE)
  IN IF n < 0 THEN NaN ELSE Num(IF neg THEN 0 - n ELSE n)

\* s.split(","): the pieces between commas, empty pieces included
RECURSIVE Split(_, _)
Split(s, cur) ==
  IF s = <<>> THEN <<cur>>
  ELSE IF Head(s) = "," THEN <<cur>> \o Split(Tail(s), <<>>)
  ELSE Split(Tail(s), Append(cur, Head(s)))

\* s.split(",").map(x => x.trim())
csvList(s) ==
  LET parts == Split(s, <<>>)
  IN List([i \in 1..Len(parts) |-> Str(Trim(parts[i]))])

\* ------------------------------------------------------------------ environment

\* process.env.NAME, the empty string standing for a variable that is not set
\* wherever the code only tests truthiness
Env(e, name) == IF name \in DOMAIN e THEN e[name] ELSE <<>>
\* if (process.env.NAME)
EnvSet(e, name) == Env(e, name) # <<>>
\* process.env.NAME !== undefined
EnvDefined(e, name) == name \in DOMAIN e
\* process.env.A || process.env.B || "default"
OrElse(a, b) == IF a # <<>> THEN a ELSE b

\* ------------------------------------------------------------------ gateway

\* const WORKSPACE_DIR
WORKSPACE_DIR(e) ==
  StripSlashes(OrElse(Env(e, "OPENCLAW_WORKSPACE_DIR"), <<"/data/workspace">>))

\* gateway.port and gateway.mode
Gateway(c, e) ==
  LET c1 == ensure(c, <<"gateway">>)
      c2 == IF EnvSet(e, "OPENCLAW_GATEWAY_PORT")
            THEN SetPath(c1, <<"gateway", "port">>, parseInt(Env(e, "OPENCLAW_GATEWAY_PORT")))
            ELSE IF ~Truthy(GetPath(c1, <<"gateway", "port">>))
                 THEN SetPath(c1, <<"gateway", "port">>, Num(18789))
                 ELSE c1
  IN IF ~Truthy(GetPath(c2, <<"gateway", "mode">>))
     THEN SetPath(c2, <<"gateway", "mode">>, Str(<<"local">>))
     ELSE c2

defaultProxies ==
  List(<<Str(<<"127.0.0.1/8">>), Str(<<"::1/128">>), Str(<<"10.0.0.0/8">>),
         Str(<<"172.16.0.0/12">>), Str(<<"192.168.0.0/16">>), Str(<<"fc00::/7">>)>>)

\* gateway.trustedProxies
TrustedProxies(c, e) ==
  IF EnvSet(e, "OPENCLAW_TRUSTED_PROXIES")
  THEN SetPath(c, <<"gateway", "trustedProxies">>, csvList(Env(e, "OPENCLAW_TRUSTED_PROXIES")))
  ELSE IF ~Truthy(GetPath(c, <<"gateway", "trustedProxies">>))
       THEN SetPath(c, <<"gateway", "trustedProxies">>, defaultProxies)
       ELSE c

\* gateway.auth from OPENCLAW_GATEWAY_TOKEN
GatewayToken(c, e) ==
  LET token == Trim(Env(e, "OPENCLAW_GATEWAY_TOKEN"))
  IN IF token # <<>>
     THEN SetPath(SetPath(ensure(c, <<"gateway", "auth">>),
                          <<"gateway", "auth", "mode">>, Str(<<"token">>)),
                  <<"gateway", "auth", "token">>, Str(token))
     ELSE c

\* gateway.controlUi defaults set whenever the flag is falsy
ControlUiFalsy(c) ==
  LET c1 == ensure(c, <<"gateway", "controlUi">>)
      c2 == IF ~Truthy(GetPath(c1, <<"gateway", "controlUi", "allowInsecureAuth">>))
            THEN SetPath(c1, <<"gateway", "controlUi", "allowInsecureAuth">>, Bool(TRUE))
            ELSE c1
  IN IF ~Truthy(GetPath(c2, <<"gateway", "controlUi", "enabled">>))
     THEN SetPath(c2, <<"gateway", "controlUi", "enabled">>, Bool(TRUE))
     ELSE c2

\* gateway.controlUi defaults (only set when undefined)
ControlUi(c) ==
  LET c1 == ensure(c, <<"gateway", "controlUi">>)
      c2 == IF GetPath(c1, <<"gateway", "controlUi", "allowInsecureAuth">>).t = "undef"
            THEN SetPath(c1, <<"gateway", "controlUi", "allowInsecureAuth">>, Bool(TRUE))
            ELSE c1
  IN IF GetPath(c2, <<"gateway", "controlUi", "enabled">>).t = "undef"
     THEN SetPath(c2, <<"gateway", "controlUi", "enabled">>, Bool(TRUE))
     ELSE c2

\* agents.defaults.workspace and agents.defaults.model
AgentsDefaults(c, e) ==
  LET c1 == ensure(c, <<"agents", "defaults">>)
      c2 == IF ~Truthy(GetPath(c1, <<"agents", "defaults", "workspace">>))
            THEN SetPath(c1, <<"agents", "defaults", "workspace">>, Str(WORKSPACE_DIR(e)))
            ELSE c1
  IN ensure(c2, <<"agents", "defaults", "model">>)

\* ------------------------------------------------------------------ providers

\* config.models?.providers?.[name]
ProviderEntry(c, name) == GetPath(c, <<"models", "providers", name>>)

\* removeProvider with the test of hasCustomConfig inverted
removeProviderInverted(c, h, name) ==
  IF h /\ Truthy(GetPath(c, <<"models", "providers", name>>))
  THEN DelPath(c, <<"models", "providers", name>>)
  ELSE c

\* removeProvider deleting the entries of the other providers with its own
removeProviderPeers(c, h, name) ==
  IF ~h /\ Truthy(ProviderEntry(c, name))
  THEN DelPath(c, <<"models", "providers">>)
  ELSE c

\* Helper: clean up a removed provider (only when no custom JSON is loaded)
removeProvider(c, h, name) ==
  IF ~h /\ Truthy(ProviderEntry(c, name))
  THEN DelPath(c, <<"models", "providers", name>>)
  ELSE c

\* const opencodeKey
opencodeKey(e) == OrElse(Env(e, "OPENCODE_API_KEY"), Env(e, "OPENCODE_ZEN_API_KEY"))

\* [envVar, providerKey in models.providers]
builtinProviders ==
  << <<"ANTHROPIC_API_KEY", "anthropic">>,
     <<"OPENAI_API_KEY", "openai">>,
     <<"OPENROUTER_API_KEY", "openrouter">>,
     <<"GEMINI_API_KEY", "google">>,
     <<"XAI_API_KEY", "xai">>,
     <<"GROQ_API_KEY", "groq">>,
     <<"MISTRAL_API_KEY", "mistral">>,
     <<"CEREBRAS_API_KEY", "cerebras">>,
     <<"ZAI_API_KEY", "zai">>,
     <<"AI_GATEWAY_API_KEY", "vercel-ai-gateway">>,
     <<"COPILOT_GITHUB_TOKEN", "github-copilot">> >>

\* the stale-entry cleanup of one built-in provider
CleanBuiltin(c, h, providerKey) ==
  IF ~h /\ Truthy(ProviderEntry(c, providerKey))
  THEN DelPath(c, <<"models", "providers", providerKey>>)
  ELSE c

\* for (const [envKey, label, providerKey] of builtinProviders), from entry i on
RECURSIVE BuiltinLoop(_, _, _)
BuiltinLoop(c, h, i) ==
  IF i > Len(builtinProviders) THEN c
  ELSE BuiltinLoop(CleanBuiltin(c, h, builtinProviders[i][2]), h, i + 1)

\* the built-in providers loop without the opencode entry that follows it
BuiltinProvidersLoopOnly(c, h) == BuiltinLoop(c, h, 1)

\* the built-in providers loop, then the opencode entry
BuiltinProviders(c, h) == CleanBuiltin(BuiltinLoop(c, h, 1), h, "opencode")

\* { id, name, contextWindow }
Model(id, name, ctx) ==
  Map([k \in {"id", "name", "contextWindow"} |->
        CASE k = "id" -> Str(id) [] k = "name" -> Str(name) [] OTHER -> Num(ctx)])

\* { api, apiKey, baseUrl, models }
KeyedProvider(api, apiKey, baseUrl, models) ==
  Map([k \in {"api", "apiKey", "baseUrl", "models"} |->
        CASE k = "api" -> Str(api) [] k = "apiKey" -> Str(apiKey)
          [] k = "baseUrl" -> Str(baseUrl) [] OTHER -> List(models)])

\* a provider entry without its models
KeylessProviderNoModels(api, baseUrl, models) ==
  Map([k \in {"api", "baseUrl", "models"} |->
        CASE k = "api" -> Str(api) [] k = "baseUrl" -> Str(baseUrl) [] OTHER -> List(<<>>)])

\* { api, baseUrl, models }
KeylessProvider(api, baseUrl, models) ==
  Map([k \in {"api", "baseUrl", "models"} |->
        CASE k = "api" -> Str(api) [] k = "baseUrl" -> Str(baseUrl) [] OTHER -> List(models)])

\* config.models.providers[name] = entry, after ensure(config, "models", "providers")
SetProvider(c, name, entry) ==
  SetPath(ensure(c, <<"models", "providers">>), <<"models", "providers", name>>, entry)

\* Venice AI (OpenAI-compatible)
Venice(c, e, h) ==
  IF EnvSet(e, "VENICE_API_KEY")
  THEN SetProvider(c, "venice",
         KeyedProvider(<<"openai-completions">>, Env(e, "VENICE_API_KEY"),
                       <<"https://api.venice.ai/api/v1">>,
                       <<Model(<<"llama-3.3-70b">>, <<"Llama 3.3 70B">>, 128000)>>))
  ELSE removeProvider(c, h, "venice")

\* MiniMax (Anthropic-compatible)
MiniMax(c, e, h) ==
  IF EnvSet(e, "MINIMAX_API_KEY")
  THEN SetProvider(c, "minimax",
         KeyedProvider(<<"anthropic-messages">>, Env(e, "MINIMAX_API_KEY"),
                       <<"https://api.minimax.io/anthropic">>,
                       <<Model(<<"MiniMax-M2.1">>, <<"MiniMax M2.1">>, 200000)>>))
  ELSE removeProvider(c, h, "minimax")

\* Moonshot / Kimi (OpenAI-compatible)
Moonshot(c, e, h) ==
  IF EnvSet(e, "MOONSHOT_API_KEY")
  THEN SetProvider(c, "moonshot",
         KeyedProvider(<<"openai-completions">>, Env(e, "MOONSHOT_API_KEY"),
                       StripSlashes(OrElse(Env(e, "MOONSHOT_BASE_URL"),
                                           <<"https://api.moonshot.ai/v1">>)),
                       <<Model(<<"kimi-k2.5">>, <<"Kimi K2.5">>, 128000)>>))
  ELSE removeProvider(c, h, "moonshot")

\* Kimi Coding (Anthropic-compatible)
KimiCoding(c, e, h) ==
  IF EnvSet(e, "KIMI_API_KEY")
  THEN SetProvider(c, "kimi-coding",
         KeyedProvider(<<"anthropic-messages">>, Env(e, "KIMI_API_KEY"),
                       StripSlashes(OrElse(Env(e, "KIMI_BASE_URL"),
                                           <<"https://api.moonshot.ai/anthropic">>)),
                       <<Model(<<"k2p5">>, <<"Kimi K2P5">>, 128000)>>))
  ELSE removeProvider(c, h, "kimi-coding")

\* Synthetic (Anthropic-compatible)
Synthetic(c, e, h) ==
  IF EnvSet(e, "SYNTHETIC_API_KEY")
  THEN SetProvider(c, "synthetic",
         KeyedProvider(<<"anthropic-messages">>, Env(e, "SYNTHETIC_API_KEY"),
                       <<"https://api.synthetic.new/anthropic">>,
                       <<Model(<<"hf:MiniMaxAI/MiniMax-M2.1">>, <<"MiniMax M2.1">>, 192000)>>))
  ELSE removeProvider(c, h, "synthetic")

\* Xiaomi MiMo (Anthropic-compatible)
Xiaomi(c, e, h) ==
  IF EnvSet(e, "XIAOMI_API_KEY")
  THEN SetProvider(c, "xiaomi",
         KeyedProvider(<<"anthropic-messages">>, Env(e, "XIAOMI_API_KEY"),
                       <<"https://api.xiaomimimo.com/anthropic">>,
                       <<Model(<<"mimo-v2-flash">>, <<"MiMo v2 Flash">>, 262144)>>))
  ELSE removeProvider(c, h, "xiaomi")

\* the outcome of a JSON.parse that throws
Fail == [t |-> "fail"]

\* the first index from i on that holds no blank
RECURSIVE SkipWs(_, _)
SkipWs(s, i) == IF i <= Len(s) /\ s[i] = " " THEN SkipWs(s, i + 1) ELSE i

\* the first index from i on that holds no digit
RECURSIVE DigitsEnd(_, _)
DigitsEnd(s, i) == IF i <= Len(s) /\ IsDigit(s[i]) THEN DigitsEnd(s, i + 1) ELSE i

\* the index of the first quote from i on, 0 when there is none
RECURSIVE QuoteEnd(_, _)
QuoteEnd(s, i) ==
  IF i > Len(s) THEN 0 ELSE IF s[i] = "\"" THEN i ELSE QuoteEnd(s, i + 1)

\* a parsed value and the index after it; the value is Fail on a syntax error
Parsed(v, n) == [v |-> v, n |-> n]

\* a JSON value from index i on: a string, a number, true, false, null or an
\* array of values; ParseElems reads the elements of an array after acc
RECURSIVE ParseVal(_, _)
RECURSIVE ParseElems(_, _, _)
ParseVal(s, i) ==
  LET j == SkipWs(s, i)
  IN IF j > Len(s) THEN Parsed(Fail, 0)
     ELSE IF s[j] = "\""
          THEN LET k == QuoteEnd(s, j + 1)
               IN IF k = 0 THEN Parsed(Fail, 0) ELSE Parsed(Str(SubSeq(s, j + 1, k - 1)), k + 1)
     ELSE IF s[j] = "["
          THEN LET k == SkipWs(s, j + 1)
               IN IF k <= Len(s) /\ s[k] = "]" THEN Parsed(List(<<>>), k + 1)
                  ELSE ParseElems(s, j + 1, <<>>)
     ELSE IF s[j] = "true" THEN Parsed(Bool(TRUE), j + 1)
     ELSE IF s[j] = "false" THEN Parsed(Bool(FALSE), j + 1)
     ELSE IF s[j] = "null" THEN Parsed(Null, j + 1)
     ELSE LET d == IF s[j] = "-" THEN j + 1 ELSE j
              k == IF d <= Len(s) /\ s[d] = "0" THEN d + 1 ELSE DigitsEnd(s, d)
          IN IF k = d THEN Parsed(Fail, 0)
             ELSE Parsed(Num((IF d = j THEN 1 ELSE -1) * DigitPrefix(SubSeq(s, d, k - 1), 0, FALSE)), k)
ParseElems(s, i, acc) ==
  LET r == ParseVal(s, i)
      k == SkipWs(s, r.n)
  IN IF r.v.t = "fail" \/ k > Len(s) THEN Parsed(Fail, 0)
     ELSE IF s[k] = "," THEN ParseElems(s, k + 1, Append(acc, r.v))
     ELSE IF s[k] = "]" THEN Parsed(List(Append(acc, r.v)), k + 1)
     ELSE Parsed(Fail, 0)

\* JSON.parse(s): one value with nothing but blanks around it
JsonParse(s) ==
  LET r == ParseVal(s, 1)
  IN IF r.v.t = "fail" \/ SkipWs(s, r.n) <= Len(s) THEN Fail ELSE r.v

\* const region
BedrockRegion(e) ==
  OrElse(Env(e, "AWS_REGION"), OrElse(Env(e, "AWS_DEFAULT_REGION"), <<"us-east-1">>))

\* const opusId
BedrockOpusId(e) ==
  OrElse(Env(e, "BEDROCK_OPUS_MODEL"), <<"anthropic.claude-opus-4-5-20251101-v1:0">>)

\* const bedrockModels
bedrockModels(e) ==
  LET sonnetId == OrElse(Env(e, "BEDROCK_SONNET_MODEL"),
                         <<"anthropic.claude-sonnet-4-5-20250929-v1:0">>)
      two == <<Model(BedrockOpusId(e), <<"Claude Opus 4.5 (Bedrock)">>, 200000),
               Model(sonnetId, <<"Claude Sonnet 4.5 (Bedrock)">>, 200000)>>
  IN IF EnvSet(e, "BEDROCK_HAIKU_MODEL")
     THEN Append(two, Model(Env(e, "BEDROCK_HAIKU_MODEL"), <<"Claude Haiku (Bedrock)">>, 200000))
     ELSE two

\* providerFilter with a parsed value that is no array left as it is
providerFilterNoWrap(e) ==
  IF EnvSet(e, "BEDROCK_PROVIDER_FILTER")
  THEN LET parsed == JsonParse(Env(e, "BEDROCK_PROVIDER_FILTER"))
       IN IF parsed.t = "fail" THEN csvList(Env(e, "BEDROCK_PROVIDER_FILTER")) ELSE parsed
  ELSE List(<<Str(<<"anthropic">>)>>)

\* providerFilter must be an array; env var may be JSON array, CSV, or plain string
providerFilter(e) ==
  IF EnvSet(e, "BEDROCK_PROVIDER_FILTER")
  THEN LET parsed == JsonParse(Env(e, "BEDROCK_PROVIDER_FILTER"))
       IN IF parsed.t = "fail" THEN csvList(Env(e, "BEDROCK_PROVIDER_FILTER"))
          ELSE IF parsed.t = "list" THEN parsed ELSE List(<<parsed>>)
  ELSE List(<<Str(<<"anthropic">>)>>)

\* config.models.bedrockDiscovery
BedrockDiscovery(e) ==
  Map([k \in {"enabled", "region", "providerFilter", "refreshInterval"} |->
        CASE k = "enabled" -> Bool(TRUE)
          [] k = "region" -> Str(BedrockRegion(e))
          [] k = "providerFilter" -> providerFilter(e)
          [] OTHER -> Num(3600)])

\* the Bedrock section with a cleanup that leaves models.bedrockDiscovery
BedrockKeepDiscovery(c, e, h) ==
  IF EnvSet(e, "AWS_ACCESS_KEY_ID") /\ EnvSet(e, "AWS_SECRET_ACCESS_KEY")
  THEN SetPath(
         SetProvider(c, "amazon-bedrock",
           KeylessProvider(<<"bedrock-converse-stream">>,
                           <<"https://bedrock-runtime.">> \o BedrockRegion(e) \o <<".amazonaws.com">>,
                           bedrockModels(e))),
         <<"models", "bedrockDiscovery">>, BedrockDiscovery(e))
  ELSE IF ~h /\ Truthy(ProviderEntry(c, "amazon-bedrock"))
       THEN DelPath(c, <<"models", "providers", "amazon-bedrock">>)
       ELSE c

\* Amazon Bedrock (uses AWS credential chain)
Bedrock(c, e, h) ==
  IF EnvSet(e, "AWS_ACCESS_KEY_ID") /\ EnvSet(e, "AWS_SECRET_ACCESS_KEY")
  THEN SetPath(
         SetProvider(c, "amazon-bedrock",
           KeylessProvider(<<"bedrock-converse-stream">>,
                           <<"https://bedrock-runtime.">> \o BedrockRegion(e) \o <<".amazonaws.com">>,
                           bedrockModels(e))),
         <<"models", "bedrockDiscovery">>, BedrockDiscovery(e))
  ELSE IF ~h /\ Truthy(ProviderEntry(c, "amazon-bedrock"))
       THEN DelPath(DelPath(c, <<"models", "providers", "amazon-bedrock">>),
                    <<"models", "bedrockDiscovery">>)
       ELSE c

\* const ollamaUrl
ollamaUrl(e) == StripSlashes(Env(e, "OLLAMA_BASE_URL"))

\* ollamaUrl.endsWith("/v1")
EndsWithV1(s) == Len(s) >= 3 /\ SubSeq(s, Len(s) - 2, Len(s)) = <<"/", "v", "1">>

\* Ollama (local, no API key needed)
Ollama(c, e, h) ==
  IF ollamaUrl(e) # <<>>
  THEN SetProvider(c, "ollama",
         KeylessProvider(<<"openai-completions">>,
                         IF EndsWithV1(ollamaUrl(e)) THEN ollamaUrl(e)
                         ELSE ollamaUrl(e) \o <<"/", "v", "1">>,
                         <<Model(<<"llama3.3">>, <<"Llama 3.3">>, 128000)>>))
  ELSE removeProvider(c, h, "ollama")

\* the custom/proxy provider blocks, in the order of the script
CustomProviders(c, e, h) ==
  Ollama(Bedrock(Xiaomi(Synthetic(KimiCoding(Moonshot(MiniMax(Venice(c, e, h),
    e, h), e, h), e, h), e, h), e, h), e, h), e, h)

\* ------------------------------------------------------------------ primary model

\* [key, model]: the first available provider wins
primaryCandidates(e) ==
  << <<Env(e, "ANTHROPIC_API_KEY"), <<"anthropic/claude-opus-4-5-20251101">> >>,
     <<Env(e, "OPENAI_API_KEY"), <<"openai/gpt-5.2">> >>,
     <<Env(e, "OPENROUTER_API_KEY"), <<"openrouter/anthropic/claude-opus-4-5">> >>,
     <<Env(e, "GEMINI_API_KEY"), <<"google/gemini-2.5-pro">> >>,
     <<opencodeKey(e), <<"opencode/claude-opus-4-5">> >>,
     <<Env(e, "COPILOT_GITHUB_TOKEN"), <<"github-copilot/claude-opus-4-5">> >>,
     <<Env(e, "XAI_API_KEY"), <<"xai/grok-3">> >>,
     <<Env(e, "GROQ_API_KEY"), <<"groq/llama-3.3-70b-versatile">> >>,
     <<Env(e, "MISTRAL_API_KEY"), <<"mistral/mistral-large-latest">> >>,
     <<Env(e, "CEREBRAS_API_KEY"), <<"cerebras/llama-3.3-70b">> >>,
     <<Env(e, "VENICE_API_KEY"), <<"venice/llama-3.3-70b">> >>,
     <<Env(e, "MOONSHOT_API_KEY"), <<"moonshot/kimi-k2.5">> >>,
     <<Env(e, "KIMI_API_KEY"), <<"kimi-coding/k2p5">> >>,
     <<Env(e, "MINIMAX_API_KEY"), <<"minimax/MiniMax-M2.1">> >>,
     <<Env(e, "SYNTHETIC_API_KEY"), <<"synthetic/hf:MiniMaxAI/MiniMax-M2.1">> >>,
     <<Env(e, "ZAI_API_KEY"), <<"zai/glm-4.7">> >>,
     <<Env(e, "AI_GATEWAY_API_KEY"), <<"vercel-ai-gateway/anthropic/claude-opus-4.5">> >>,
     <<Env(e, "XIAOMI_API_KEY"), <<"xiaomi/mimo-v2-flash">> >>,
     <<Env(e, "AWS_ACCESS_KEY_ID"), <<"amazon-bedrock/">> \o BedrockOpusId(e)>>,
     <<ollamaUrl(e), <<"ollama/llama3.3">> >> >>

PrimaryPath == <<"agents", "defaults", "model", "primary">>

\* the selection loop stopping before the last candidate
RECURSIVE AutoSelectSkipLast(_, _, _)
AutoSelectSkipLast(c, cands, i) ==
  IF i >= Len(cands) THEN c
  ELSE IF cands[i][1] # <<>> THEN SetPath(c, PrimaryPath, Str(cands[i][2]))
  ELSE AutoSelectSkipLast(c, cands, i + 1)

\* for (const [key, model] of primaryCandidates) if (key) { primary = model; break }
RECURSIVE AutoSelect(_, _, _)
AutoSelect(c, cands, i) ==
  IF i > Len(cands) THEN c
  ELSE IF cands[i][1] # <<>> THEN SetPath(c, PrimaryPath, Str(cands[i][2]))
  ELSE AutoSelect(c, cands, i + 1)

\* primary model selection without the "already set" branch
PrimaryModelAuto(c, e) ==
  IF EnvSet(e, "OPENCLAW_PRIMARY_MODEL")
  THEN SetPath(c, PrimaryPath, Str(Env(e, "OPENCLAW_PRIMARY_MODEL")))
  ELSE AutoSelect(c, primaryCandidates(e), 1)

\* Primary model selection
PrimaryModel(c, e) ==
  IF EnvSet(e, "OPENCLAW_PRIMARY_MODEL")
  THEN SetPath(c, PrimaryPath, Str(Env(e, "OPENCLAW_PRIMARY_MODEL")))
  ELSE IF Truthy(GetPath(c, PrimaryPath)) THEN c
  ELSE AutoSelect(c, primaryCandidates(e), 1)

\* ------------------------------------------------------------------ field mapping

\* Number(s) for a trimmed piece: 0 for the empty string, the integer for an
\* optionally signed run of digits, NaN otherwise
Number(s) ==
  LET u == IF s # <<>> /\ Head(s) \in {"-", "+"} THEN Tail(s) ELSE s
  IN IF s = <<>> THEN Num(0)
     ELSE IF u # <<>> /\ (\A i \in 1..Len(u) : IsDigit(u[i]))
          THEN Num((IF s # <<>> /\ Head(s) = "-" THEN -1 ELSE 1) * DigitPrefix(u, 0, FALSE))
          ELSE NaN

\* s.split(",").map(x => Number.isInteger(Number(x.trim())) ? Number(x.trim()) : x.trim())
csvNumericList(s) ==
  LET parts == Split(s, <<>>)
  IN List([i \in 1..Len(parts) |->
            IF Number(Trim(parts[i])).t = "num" THEN Number(Trim(parts[i]))
            ELSE Str(Trim(parts[i]))])

\* the value a field of a table gets from its variable's text
Coerce(kind, s) ==
  CASE kind = "string" -> Str(s)
    [] kind = "boolDefaultTrue" -> Bool(s # <<"false">>)
    [] kind = "boolDefaultFalse" -> Bool(s = <<"true">>)
    [] kind = "integer" -> parseInt(s)
    [] kind = "csvList" -> csvList(s)
    [] kind = "csvNumericList" -> csvNumericList(s)

\* if (process.env.VAR) { ensure(obj, ...parents); obj.path = coerced }
ApplyField(obj, e, f) ==
  IF EnvSet(e, f[1])
  THEN SetPath(ensure(obj, SubSeq(f[2], 1, Len(f[2]) - 1)), f[2], Coerce(f[3], Env(e, f[1])))
  ELSE obj

\* the fields of a table, from entry i on
RECURSIVE ApplyFields(_, _, _, _)
ApplyFields(obj, e, table, i) ==
  IF i > Len(table) THEN obj
  ELSE ApplyFields(ApplyField(obj, e, table[i]), e, table, i + 1)

\* [variable, path in the channel block, coercion]
TelegramFields ==
  << <<"TELEGRAM_DM_POLICY", <<"dmPolicy">>, "string">>,
     <<"TELEGRAM_GROUP_POLICY", <<"groupPolicy">>, "string">>,
     <<"TELEGRAM_REPLY_TO_MODE", <<"replyToMode">>, "string">>,
     <<"TELEGRAM_CHUNK_MODE", <<"chunkMode">>, "string">>,
     <<"TELEGRAM_STREAM_MODE", <<"streamMode">>, "string">>,
     <<"TELEGRAM_REACTION_NOTIFICATIONS", <<"reactionNotifications">>, "string">>,
     <<"TELEGRAM_REACTION_LEVEL", <<"reactionLevel">>, "string">>,
     <<"TELEGRAM_PROXY", <<"proxy">>, "string">>,
     <<"TELEGRAM_WEBHOOK_URL", <<"webhookUrl">>, "string">>,
     <<"TELEGRAM_WEBHOOK_SECRET", <<"webhookSecret">>, "string">>,
     <<"TELEGRAM_WEBHOOK_PATH", <<"webhookPath">>, "string">>,
     <<"TELEGRAM_MESSAGE_PREFIX", <<"messagePrefix">>, "string">>,
     <<"TELEGRAM_LINK_PREVIEW", <<"linkPreview">>, "boolDefaultTrue">>,
     <<"TELEGRAM_ACTIONS_REACTIONS", <<"actions", "reactions">>, "boolDefaultTrue">>,
     <<"TELEGRAM_ACTIONS_STICKER", <<"actions", "sticker">>, "boolDefaultFalse">>,
     <<"TELEGRAM_TEXT_CHUNK_LIMIT", <<"textChunkLimit">>, "integer">>,
     <<"TELEGRAM_MEDIA_MAX_MB", <<"mediaMaxMb">>, "integer">>,
     <<"TELEGRAM_ALLOW_FROM", <<"allowFrom">>, "csvNumericList">>,
     <<"TELEGRAM_GROUP_ALLOW_FROM", <<"groupAllowFrom">>, "csvNumericList">>,
     <<"TELEGRAM_INLINE_BUTTONS", <<"capabilities", "inlineButtons">>, "string">> >>

DiscordFields ==
  << <<"DISCORD_DM_POLICY", <<"dm", "policy">>, "string">>,
     <<"DISCORD_GROUP_POLICY", <<"groupPolicy">>, "string">>,
     <<"DISCORD_REPLY_TO_MODE", <<"replyToMode">>, "string">>,
     <<"DISCORD_CHUNK_MODE", <<"chunkMode">>, "string">>,
     <<"DISCORD_REACTION_NOTIFICATIONS", <<"reactionNotifications">>, "string">>,
     <<"DISCORD_MESSAGE_PREFIX", <<"messagePrefix">>, "string">>,
     <<"DISCORD_ALLOW_BOTS", <<"allowBots">>, "boolDefaultFalse">>,
     <<"DISCORD_ACTIONS_REACTIONS", <<"actions", "reactions">>, "boolDefaultTrue">>,
     <<"DISCORD_ACTIONS_STICKERS", <<"actions", "stickers">>, "boolDefaultTrue">>,
     <<"DISCORD_ACTIONS_EMOJI_UPLOADS", <<"actions", "emojiUploads">>, "boolDefaultTrue">>,
     <<"DISCORD_ACTIONS_STICKER_UPLOADS", <<"actions", "stickerUploads">>, "boolDefaultTrue">>,
     <<"DISCORD_ACTIONS_POLLS", <<"actions", "polls">>, "boolDefaultTrue">>,
     <<"DISCORD_ACTIONS_PERMISSIONS", <<"actions", "permissions">>, "boolDefaultTrue">>,
     <<"DISCORD_ACTIONS_MESSAGES", <<"actions", "messages">>, "boolDefaultTrue">>,
     <<"DISCORD_ACTIONS_THREADS", <<"actions", "threads">>, "boolDefaultTrue">>,
     <<"DISCORD_ACTIONS_PINS", <<"actions", "pins">>, "boolDefaultTrue">>,
     <<"DISCORD_ACTIONS_SEARCH", <<"actions", "search">>, "boolDefaultTrue">>,
     <<"DISCORD_ACTIONS_MEMBER_INFO", <<"actions", "memberInfo">>, "boolDefaultTrue">>,
     <<"DISCORD_ACTIONS_ROLE_INFO", <<"actions", "roleInfo">>, "boolDefaultTrue">>,
     <<"DISCORD_ACTIONS_CHANNEL_INFO", <<"actions", "channelInfo">>, "boolDefaultTrue">>,
     <<"DISCORD_ACTIONS_CHANNELS", <<"actions", "channels">>, "boolDefaultTrue">>,
     <<"DISCORD_ACTIONS_VOICE_STATUS", <<"actions", "voiceStatus">>, "boolDefaultTrue">>,
     <<"DISCORD_ACTIONS_EVENTS", <<"actions", "events">>, "boolDefaultTrue">>,
     <<"DISCORD_ACTIONS_ROLES", <<"actions", "roles">>, "boolDefaultFalse">>,
     <<"DISCORD_ACTIONS_MODERATION", <<"actions", "moderation">>, "boolDefaultFalse">>,
     <<"DISCORD_TEXT_CHUNK_LIMIT", <<"textChunkLimit">>, "integer">>,
     <<"DISCORD_MAX_LINES_PER_MESSAGE", <<"maxLinesPerMessage">>, "integer">>,
     <<"DISCORD_MEDIA_MAX_MB", <<"mediaMaxMb">>, "integer">>,
     <<"DISCORD_HISTORY_LIMIT", <<"historyLimit">>, "integer">>,
     <<"DISCORD_DM_HISTORY_LIMIT", <<"dmHistoryLimit">>, "integer">>,
     <<"DISCORD_DM_ALLOW_FROM", <<"dm", "allowFrom">>, "csvList">> >>

SlackFields ==
  << <<"SLACK_USER_TOKEN", <<"userToken">>, "string">>,
     <<"SLACK_SIGNING_SECRET", <<"signingSecret">>, "string">>,
     <<"SLACK_MODE", <<"mode">>, "string">>,
     <<"SLACK_WEBHOOK_PATH", <<"webhookPath">>, "string">>,
     <<"SLACK_DM_POLICY", <<"dm", "policy">>, "string">>,
     <<"SLACK_GROUP_POLICY", <<"groupPolicy">>, "string">>,
     <<"SLACK_REPLY_TO_MODE", <<"replyToMode">>, "string">>,
     <<"SLACK_REACTION_NOTIFICATIONS", <<"reactionNotifications">>, "string">>,
     <<"SLACK_CHUNK_MODE", <<"chunkMode">>, "string">>,
     <<"SLACK_MESSAGE_PREFIX", <<"messagePrefix">>, "string">>,
     <<"SLACK_ALLOW_BOTS", <<"allowBots">>, "boolDefaultFalse">>,
     <<"SLACK_ACTIONS_REACTIONS", <<"actions", "reactions">>, "boolDefaultTrue">>,
     <<"SLACK_ACTIONS_MESSAGES", <<"actions", "messages">>, "boolDefaultTrue">>,
     <<"SLACK_ACTIONS_PINS", <<"actions", "pins">>, "boolDefaultTrue">>,
     <<"SLACK_ACTIONS_MEMBER_INFO", <<"actions", "memberInfo">>, "boolDefaultTrue">>,
     <<"SLACK_ACTIONS_EMOJI_LIST", <<"actions", "emojiList">>, "boolDefaultTrue">>,
     <<"SLACK_HISTORY_LIMIT", <<"historyLimit">>, "integer">>,
     <<"SLACK_TEXT_CHUNK_LIMIT", <<"textChunkLimit">>, "integer">>,
     <<"SLACK_MEDIA_MAX_MB", <<"mediaMaxMb">>, "integer">>,
     <<"SLACK_DM_ALLOW_FROM", <<"dm", "allowFrom">>, "csvList">> >>

WhatsAppFields ==
  << <<"WHATSAPP_DM_POLICY", <<"dmPolicy">>, "string">>,
     <<"WHATSAPP_GROUP_POLICY", <<"groupPolicy">>, "string">>,
     <<"WHATSAPP_MESSAGE_PREFIX", <<"messagePrefix">>, "string">>,
     <<"WHATSAPP_SELF_CHAT_MODE", <<"selfChatMode">>, "boolDefaultFalse">>,
     <<"WHATSAPP_SEND_READ_RECEIPTS", <<"sendReadReceipts">>, "boolDefaultTrue">>,
     <<"WHATSAPP_ACTIONS_REACTIONS", <<"actions", "reactions">>, "boolDefaultTrue">>,
     <<"WHATSAPP_MEDIA_MAX_MB", <<"mediaMaxMb">>, "integer">>,
     <<"WHATSAPP_HISTORY_LIMIT", <<"historyLimit">>, "integer">>,
     <<"WHATSAPP_DM_HISTORY_LIMIT", <<"dmHistoryLimit">>, "integer">>,
     <<"WHATSAPP_ALLOW_FROM", <<"allowFrom">>, "csvList">>,
     <<"WHATSAPP_GROUP_ALLOW_FROM", <<"groupAllowFrom">>, "csvList">>,
     <<"WHATSAPP_ACK_REACTION_EMOJI", <<"ackReaction", "emoji">>, "string">>,
     <<"WHATSAPP_ACK_REACTION_DIRECT", <<"ackReaction", "direct">>, "boolDefaultTrue">>,
     <<"WHATSAPP_ACK_REACTION_GROUP", <<"ackReaction", "group">>, "string">> >>

\* a channel block started afresh whatever the config holds
ChannelBlockFresh(c, name) == EmptyMap

\* config.channels.name = config.channels.name || {}
ChannelBlock(c, name) ==
  IF Truthy(GetPath(c, <<"channels", name>>)) THEN GetPath(c, <<"channels", name>>)
  ELSE EmptyMap

\* Deepgram (audio transcription)
Deepgram(c, e) ==
  IF EnvSet(e, "DEEPGRAM_API_KEY")
  THEN SetPath(SetPath(ensure(c, <<"tools", "media", "audio">>),
                       <<"tools", "media", "audio", "enabled">>, Bool(TRUE)),
               <<"tools", "media", "audio", "models">>,
               List(<<Map([k \in {"provider", "model"} |->
                            IF k = "provider" THEN Str(<<"deepgram">>) ELSE Str(<<"nova-3">>)])>>))
  ELSE c

Telegram(c, e) ==
  IF EnvSet(e, "TELEGRAM_BOT_TOKEN")
  THEN LET c1 == ensure(c, <<"channels">>)
           tg == Put(Put(ChannelBlock(c1, "telegram"), "botToken",
                         Str(Env(e, "TELEGRAM_BOT_TOKEN"))), "enabled", Bool(TRUE))
       IN SetPath(c1, <<"channels", "telegram">>, ApplyFields(tg, e, TelegramFields, 1))
  ELSE c

Discord(c, e) ==
  IF EnvSet(e, "DISCORD_BOT_TOKEN")
  THEN LET c1 == ensure(c, <<"channels">>)
           dc == Put(Put(ChannelBlock(c1, "discord"), "token",
                         Str(Env(e, "DISCORD_BOT_TOKEN"))), "enabled", Bool(TRUE))
       IN SetPath(c1, <<"channels", "discord">>, ApplyFields(dc, e, DiscordFields, 1))
  ELSE c

Slack(c, e) ==
  IF EnvSet(e, "SLACK_BOT_TOKEN") /\ EnvSet(e, "SLACK_APP_TOKEN")
  THEN LET c1 == ensure(c, <<"channels">>)
           sl == Put(Put(Put(ChannelBlock(c1, "slack"), "botToken",
                             Str(Env(e, "SLACK_BOT_TOKEN"))),
                         "appToken", Str(Env(e, "SLACK_APP_TOKEN"))), "enabled", Bool(TRUE))
       IN SetPath(c1, <<"channels", "slack">>, ApplyFields(sl, e, SlackFields, 1))
  ELSE c

\* WhatsApp written onto the block the config holds, as the other channels are
WhatsAppMergeOnto(c, e) ==
  IF Env(e, "WHATSAPP_ENABLED") = <<"true">> \/ Env(e, "WHATSAPP_ENABLED") = <<"1">>
  THEN LET c1 == ensure(c, <<"channels">>)
           wa == Put(ChannelBlock(c1, "whatsapp"), "enabled", Bool(TRUE))
       IN SetPath(c1, <<"channels", "whatsapp">>, ApplyFields(wa, e, WhatsAppFields, 1))
  ELSE c

\* WhatsApp: full overwrite, env vars are authoritative
WhatsApp(c, e) ==
  IF Env(e, "WHATSAPP_ENABLED") = <<"true">> \/ Env(e, "WHATSAPP_ENABLED") = <<"1">>
  THEN LET c1 == ensure(c, <<"channels">>)
           wa == Put(EmptyMap, "enabled", Bool(TRUE))
       IN SetPath(c1, <<"channels", "whatsapp">>, ApplyFields(wa, e, WhatsAppFields, 1))
  ELSE c

\* Object.keys(v).length: the keys of an object, the indices and the named
\* properties of an array, the indices of a string, none for a number or a boolean
KeyCount(v) ==
  CASE v.t = "map" -> Cardinality(DOMAIN v.m)
    [] v.t = "list" -> Len(v.l) + Cardinality(DOMAIN Props(v))
    [] v.t = "str" -> Len(v.s)
    [] OTHER -> 0

\* Clean up empty channels object
CleanChannels(c) ==
  IF Truthy(Get(c, "channels")) /\ KeyCount(Get(c, "channels")) = 0
  THEN Del(c, "channels")
  ELSE c

Channels(c, e) == CleanChannels(WhatsApp(Slack(Discord(Telegram(c, e), e), e), e))

\* Hooks (webhook automation)
Hooks(c, e) ==
  IF Env(e, "HOOKS_ENABLED") = <<"true">> \/ Env(e, "HOOKS_ENABLED") = <<"1">>
  THEN LET c1 == SetPath(ensure(c, <<"hooks">>), <<"hooks", "enabled">>, Bool(TRUE))
           c2 == IF EnvSet(e, "HOOKS_TOKEN")
                 THEN SetPath(c1, <<"hooks", "token">>, Str(Env(e, "HOOKS_TOKEN"))) ELSE c1
       IN IF EnvSet(e, "HOOKS_PATH")
          THEN SetPath(c2, <<"hooks", "path">>, Str(Env(e, "HOOKS_PATH"))) ELSE c2
  ELSE c

BrowserFields ==
  << <<"BROWSER_SNAPSHOT_MODE", <<"snapshotDefaults", "mode">>, "string">>,
     <<"BROWSER_REMOTE_TIMEOUT_MS", <<"remoteCdpTimeoutMs">>, "integer">>,
     <<"BROWSER_REMOTE_HANDSHAKE_TIMEOUT_MS", <<"remoteCdpHandshakeTimeoutMs">>, "integer">>,
     <<"BROWSER_DEFAULT_PROFILE", <<"defaultProfile">>, "string">> >>

\* Browser tool (remote CDP)
Browser(c, e) ==
  IF EnvSet(e, "BROWSER_CDP_URL")
  THEN LET c1 == ensure(c, <<"browser">>)
           br == Put(Get(c1, "browser"), "cdpUrl", Str(Env(e, "BROWSER_CDP_URL")))
           br2 == IF EnvDefined(e, "BROWSER_EVALUATE_ENABLED")
                  THEN Put(br, "evaluateEnabled",
                           Bool(Env(e, "BROWSER_EVALUATE_ENABLED") = <<"true">>))
                  ELSE br
       IN Put(c1, "browser", ApplyFields(br2, e, BrowserFields, 1))
  ELSE c

\* ------------------------------------------------------------------ validation, output

\* the validation with either AWS variable counting as a provider
hasProviderEitherAws(e) ==
  \/ \E i \in 1..Len(builtinProviders) : EnvSet(e, builtinProviders[i][1])
  \/ opencodeKey(e) # <<>>
  \/ (EnvSet(e, "AWS_ACCESS_KEY_ID") \/ EnvSet(e, "AWS_SECRET_ACCESS_KEY"))
  \/ ollamaUrl(e) # <<>>
  \/ EnvSet(e, "VENICE_API_KEY") \/ EnvSet(e, "MINIMAX_API_KEY")
  \/ EnvSet(e, "MOONSHOT_API_KEY") \/ EnvSet(e, "KIMI_API_KEY")
  \/ EnvSet(e, "SYNTHETIC_API_KEY") \/ EnvSet(e, "XIAOMI_API_KEY")

\* the validation with OLLAMA_BASE_URL tested as it is set, slashes included
hasProviderRawOllama(e) ==
  \/ \E i \in 1..Len(builtinProviders) : EnvSet(e, builtinProviders[i][1])
  \/ opencodeKey(e) # <<>>
  \/ (EnvSet(e, "AWS_ACCESS_KEY_ID") /\ EnvSet(e, "AWS_SECRET_ACCESS_KEY"))
  \/ EnvSet(e, "OLLAMA_BASE_URL")
  \/ EnvSet(e, "VENICE_API_KEY") \/ EnvSet(e, "MINIMAX_API_KEY")
  \/ EnvSet(e, "MOONSHOT_API_KEY") \/ EnvSet(e, "KIMI_API_KEY")
  \/ EnvSet(e, "SYNTHETIC_API_KEY") \/ EnvSet(e, "XIAOMI_API_KEY")

\* Validate: at least one provider API key env var must be set
hasProvider(e) ==
  \/ \E i \in 1..Len(builtinProviders) : EnvSet(e, builtinProviders[i][1])
  \/ opencodeKey(e) # <<>>
  \/ (EnvSet(e, "AWS_ACCESS_KEY_ID") /\ EnvSet(e, "AWS_SECRET_ACCESS_KEY"))
  \/ ollamaUrl(e) # <<>>
  \/ EnvSet(e, "VENICE_API_KEY") \/ EnvSet(e, "MINIMAX_API_KEY")
  \/ EnvSet(e, "MOONSHOT_API_KEY") \/ EnvSet(e, "KIMI_API_KEY")
  \/ EnvSet(e, "SYNTHETIC_API_KEY") \/ EnvSet(e, "XIAOMI_API_KEY")

\* JSON.stringify(config, null, 2) as the JSON value a later JSON.parse gives back:
\* NaN becomes null, an undefined property is dropped, an array keeps its
\* elements only
RECURSIVE Stringify(_)
Stringify(v) ==
  CASE v.t = "map" ->
         Map([k \in {j \in DOMAIN v.m : v.m[j].t # "undef"} |-> Stringify(v.m[k])])
    [] v.t = "list" ->
         List([i \in 1..Len(v.l) |->
                IF v.l[i].t = "undef" THEN Null ELSE Stringify(v.l[i])])
    [] v.t = "nan" -> Null
    [] OTHER -> v

\* the gateway and agents sections
GatewaySection(c, e) ==
  AgentsDefaults(ControlUi(GatewayToken(TrustedProxies(Gateway(c, e), e), e)), e)

\* the hooks and browser sections
ToolsSection(c, e) == Browser(Hooks(c, e), e)

\* ------------------------------------------------------------------ inputs

\* the most variables the environment of one start sets
MaxEnvVars == 3

\* a file on disk: missing, not JSON, or a JSON document
NoFile == [k |-> "absent"]
Garbage == [k |-> "garbage"]
Json(d) == [k |-> "json", doc |-> d]

\* the provider activation variables
SignalVars ==
  {"ANTHROPIC_API_KEY", "OPENAI_API_KEY", "OPENROUTER_API_KEY", "GEMINI_API_KEY",
   "XAI_API_KEY", "GROQ_API_KEY", "MISTRAL_API_KEY", "CEREBRAS_API_KEY", "ZAI_API_KEY",
   "AI_GATEWAY_API_KEY", "COPILOT_GITHUB_TOKEN", "OPENCODE_API_KEY", "OPENCODE_ZEN_API_KEY",
   "VENICE_API_KEY", "MINIMAX_API_KEY", "MOONSHOT_API_KEY", "KIMI_API_KEY",
   "SYNTHETIC_API_KEY", "XIAOMI_API_KEY", "AWS_ACCESS_KEY_ID", "AWS_SECRET_ACCESS_KEY",
   "OLLAMA_BASE_URL"}

\* the variables set in the runs that exercise the layers and the providers
CoreVars ==
  {"ANTHROPIC_API_KEY", "VENICE_API_KEY", "AWS_ACCESS_KEY_ID", "AWS_SECRET_ACCESS_KEY",
   "OLLAMA_BASE_URL", "OPENCLAW_PRIMARY_MODEL", "OPENCLAW_GATEWAY_PORT"}

\* the variables set in the runs that exercise the slots: channels, tools and
\* one custom provider
SlotVars ==
  {"ANTHROPIC_API_KEY", "VENICE_API_KEY", "TELEGRAM_BOT_TOKEN", "TELEGRAM_DM_POLICY",
   "DISCORD_BOT_TOKEN", "SLACK_BOT_TOKEN", "SLACK_APP_TOKEN", "WHATSAPP_ENABLED",
   "WHATSAPP_DM_POLICY", "HOOKS_ENABLED", "BROWSER_CDP_URL", "DEEPGRAM_API_KEY"}

\* the texts a variable is given
ValuesOf(v) ==
  CASE v = "OPENCLAW_GATEWAY_PORT" -> {<<"7", "0", "0", "0">>}
    [] v = "OPENCLAW_PRIMARY_MODEL" -> {<<"env/model">>}
    [] v = "OLLAMA_BASE_URL" -> {<<"http://ollama:11434", "/">>, <<"/">>}
    [] v = "WHATSAPP_ENABLED" -> {<<"true">>, <<"1">>}
    [] v = "HOOKS_ENABLED" -> {<<"1">>}
    [] v = "TELEGRAM_DM_POLICY" -> {<<"open">>}
    [] v = "BROWSER_CDP_URL" -> {<<"ws://browser:9222">>}
    [] v = "WHATSAPP_DM_POLICY" -> {<<"pairing">>}
    [] OTHER -> {<<"key">>}

\* the environments that set the variables of S
EnvsOver(S) == {e \in [S -> UNION {ValuesOf(v) : v \in S}] : \A v \in S : e[v] \in ValuesOf(v)}

\* the subsets of V with at most n elements
RECURSIVE SubsetsUpTo(_, _)
SubsetsUpTo(V, n) ==
  IF n = 0 THEN {{}}
  ELSE LET S == SubsetsUpTo(V, n - 1) IN S \cup {T \cup {v} : T \in S, v \in V}

\* the environments that set at most n variables of V
Envs(V, n) == UNION {EnvsOver(S) : S \in SubsetsUpTo(V, n)}

\* a document with one value at one path
RECURSIVE Single(_, _)
Single(p, x) == IF p = <<>> THEN x ELSE Put(EmptyMap, Head(p), Single(Tail(p), x))

\* a provider block as a user or an earlier version wrote it
OldProvider(who) ==
  Map([k \in {"api", "baseUrl", "models", "note"} |->
        CASE k = "api" -> Str(<<"openai-completions">>)
          [] k = "baseUrl" -> Str(<<"https://", who, ".example">>)
          [] k = "models" -> List(<<Model(<<who, "-model">>, <<who>>, 1000)>>)
          [] OTHER -> Str(<<who>>)])

\* a channel block with a field no variable of this model supplies
OldChannel(who) ==
  Map([k \in {"enabled", "dmPolicy", "legacy"} |->
        CASE k = "enabled" -> Bool(TRUE)
          [] k = "dmPolicy" -> Str(<<who, "-policy">>)
          [] OTHER -> Str(<<who>>)])

\* a document of a layer (who = "base" or "persisted") about the gateway, the
\* providers or the primary model
CoreDocs(who) ==
  {EmptyMap,
   Single(<<"gateway", "port">>, Num(IF who = "base" THEN 8000 ELSE 9000)),
   Single(<<"gateway", "port">>, Num(0)),
   Single(<<"models", "providers", "venice">>, OldProvider(who)),
   Single(<<"models", "providers">>,
          Map([k \in {builtinProviders[i][2] : i \in 1..Len(builtinProviders)}
                        \cup {"opencode", "minimax"}
                |-> Put(EmptyMap, "apiKey", Str(<<who>>))])),
   Single(<<"channels">>, List(<<>>)),
   Single(PrimaryPath, Str(<<who, "/model">>))}
  \cup (IF who = "persisted"
        THEN {Single(<<"models", "providers", "venice">>, Str(<<who>>))}
        ELSE {Single(<<"agents", "defaults", "model">>, Str(<<who, "/model">>))})

\* the paths of the slot blocks a layer may hold
ChannelPaths ==
  {<<"channels", "telegram">>, <<"channels", "discord">>, <<"channels", "slack">>,
   <<"channels", "whatsapp">>}
ToolPaths == {<<"hooks">>, <<"browser">>, <<"tools", "media", "audio">>}
ProviderPaths ==
  {<<"models", "providers", "venice">>, <<"models", "providers", "amazon-bedrock">>,
   <<"models", "providers", "anthropic">>}

\* a document with the block blk at every path of the sequence paths, from i on
RECURSIVE WithBlocks(_, _, _, _)
WithBlocks(d, paths, blk, i) ==
  IF i > Len(paths) THEN d
  ELSE WithBlocks(deepMerge(d, Single(paths[i], blk)), paths, blk, i + 1)

\* a set of paths as a sequence
RECURSIVE SeqOf(_)
SeqOf(S) == IF S = {} THEN <<>> ELSE LET x == CHOOSE y \in S : TRUE IN <<x>> \o SeqOf(S \ {x})

\* a document of a layer with a block for every channel, tool and provider slot
Blocks(who) ==
  WithBlocks(
    WithBlocks(Single(<<"models", "bedrockDiscovery">>, OldChannel(who)),
               SeqOf(ChannelPaths \cup ToolPaths), OldChannel(who), 1),
    SeqOf(ProviderPaths), OldProvider(who), 1)

\* a document of a layer about the slots
SlotDocs(who) == {EmptyMap, Single(<<"channels">>, EmptyMap), Blocks(who)}

\* the values of a small document: a number, two arrays, and objects over them
MergeLeaves == {Num(1), List(<<Num(1)>>), List(<<Num(2), Num(3)>>)}
MergeInner == {EmptyMap} \cup {Single(<<"x">>, v) : v \in MergeLeaves}

\* the documents with keys among a and b, which the script does not write
MergeDocs ==
  LET opt == MergeLeaves \cup MergeInner \cup {Undef}
  IN {Map([k \in {j \in {"a", "b"} : f[j].t # "undef"} |-> f[k]]) : f \in [{"a", "b"} -> opt]}

Files(docs) == {NoFile, Garbage} \cup {Json(d) : d \in docs}

\* ------------------------------------------------------------------ the run

VARIABLES
  env,              \* process.env of the current start
  customFile,       \* the file at CUSTOM_CONFIG (never written)
  configFile,       \* the file at CONFIG_FILE
  config,           \* let config
  hasCustomConfig,  \* let hasCustomConfig
  pc,               \* where the script is
  exitCode,         \* the exit status, -1 while running
  merged,           \* config as it was after the persisted config was merged
  startFile,        \* configFile as it was when this start began
  prevEnv           \* the environment of the start before this one

vars == <<env, customFile, configFile, config, hasCustomConfig, pc, exitCode,
          merged, startFile, prevEnv>>

NoEnv == [none |-> <<>>]

\* the first start of the container, with an environment of at most n variables
\* of V, a custom config among B and a persisted config among P
InitOver(V, n, B, P) ==
  /\ env \in Envs(V, n)
  /\ customFile \in B
  /\ configFile \in P
  /\ config = EmptyMap
  /\ hasCustomConfig = FALSE
  /\ pc = "custom"
  /\ exitCode = -1
  /\ merged = EmptyMap
  /\ startFile = configFile
  /\ prevEnv = NoEnv

Init ==
  InitOver(CoreVars, MaxEnvVars, Files(CoreDocs("base")),
           {NoFile} \cup {Json(d) : d \in CoreDocs("persisted")})

InitSlots ==
  InitOver(SlotVars, MaxEnvVars, {NoFile} \cup {Json(d) : d \in SlotDocs("base")},
           {NoFile} \cup {Json(d) : d \in SlotDocs("persisted")})

\* the starts over the slot variables with one variable fewer
InitOrder ==
  InitOver(SlotVars, MaxEnvVars - 1, {NoFile} \cup {Json(d) : d \in SlotDocs("base")},
           {NoFile} \cup {Json(d) : d \in SlotDocs("persisted")})

\* the variables of the gateway and agents defaults, and a provider key
DefaultVars ==
  {"ANTHROPIC_API_KEY", "OPENCLAW_GATEWAY_PORT", "OPENCLAW_TRUSTED_PROXIES",
   "OPENCLAW_WORKSPACE_DIR"}

\* the paths that get a default
DefaultPaths ==
  {<<"gateway", "port">>, <<"gateway", "mode">>, <<"gateway", "trustedProxies">>,
   <<"gateway", "controlUi", "allowInsecureAuth">>, <<"gateway", "controlUi", "enabled">>,
   <<"agents", "defaults", "workspace">>}

\* the values a layer may hold at a path that gets a default: one the script
\* finds truthy, and the ones it finds falsy
DefaultValues(who, p) ==
  CASE p = <<"gateway", "port">> -> {Num(IF who = "base" THEN 8000 ELSE 9000), Num(0)}
    [] p = <<"gateway", "mode">> -> {Str(<<who>>), Str(<<>>)}
    [] p = <<"gateway", "trustedProxies">> -> {List(<<Str(<<who>>)>>), List(<<>>), Null}
    [] p = <<"agents", "defaults", "workspace">> -> {Str(<<"/", who>>), Str(<<>>)}
    [] OTHER -> {Bool(FALSE), Bool(TRUE), Null}

\* a document of a layer with a value at one of the paths that get a default
DefaultDocs(who) ==
  {EmptyMap} \cup UNION {{Single(p, v) : v \in DefaultValues(who, p)} : p \in DefaultPaths}

InitDefaults ==
  InitOver(DefaultVars, MaxEnvVars - 1,
           {NoFile} \cup {Json(d) : d \in DefaultDocs("base")},
           {NoFile} \cup {Json(d) : d \in DefaultDocs("persisted")})

\* the longest text given to an allowlist or filter variable, long ones aside
MaxTextLen == 3

\* the characters of an allowlist text: digits, a sign, the comma, a blank, a letter
CsvChars == {"1", "0", "-", ",", " ", "a"}

\* the texts of n characters
RECURSIVE TextsOfLen(_, _)
TextsOfLen(A, n) ==
  IF n = 0 THEN {<<>>} ELSE {Append(t, a) : t \in TextsOfLen(A, n - 1), a \in A}

CsvTexts == UNION {TextsOfLen(CsvChars, n) : n \in 1..MaxTextLen}

\* Telegram activated with one allowlist variable, with and without a provider key
CsvEnvs ==
  UNION {{[v \in S \cup {a} |-> IF v = a THEN t ELSE <<"key">>] :
            S \in {{"TELEGRAM_BOT_TOKEN"}, {"TELEGRAM_BOT_TOKEN", "ANTHROPIC_API_KEY"}}} :
         a \in {"TELEGRAM_ALLOW_FROM", "TELEGRAM_GROUP_ALLOW_FROM"}, t \in CsvTexts}

\* the characters of a filter text: brackets, the comma, the quote, a blank, a
\* letter, a digit
FilterChars == {"[", "]", ",", "\"", " ", "a", "1"}

\* the short filter texts, and longer ones: arrays of strings and of literals, a
\* string with a comma in it, nested arrays, a list of names
FilterTexts ==
  UNION {TextsOfLen(FilterChars, n) : n \in 1..MaxTextLen}
    \cup {<<"[", "\"", "a", "\"", ",", " ", "\"", "1", "\"", "]">>,
          <<"[", "\"", "a", ",", "a", "\"", "]">>,
          <<"[", "[", "1", "]", ",", "null", "]">>,
          <<" ", "true", " ">>,
          <<"\"", "a", "\"", ",", "\"", "a", "\"">>,
          <<"[", "1", ",", "]">>,
          <<"anthropic", ",", " ", "amazon", " ">>}

\* Bedrock's variables with and without a filter text, and with the secret missing
FilterEnvs ==
  UNION {{[v \in S |-> IF v = "BEDROCK_PROVIDER_FILTER" THEN t ELSE <<"key">>] :
            S \in {{"AWS_ACCESS_KEY_ID", "AWS_SECRET_ACCESS_KEY", "BEDROCK_PROVIDER_FILTER"},
                   {"AWS_ACCESS_KEY_ID", "AWS_SECRET_ACCESS_KEY"},
                   {"AWS_ACCESS_KEY_ID", "BEDROCK_PROVIDER_FILTER"}}} :
         t \in FilterTexts}

InitFilter ==
  /\ env \in FilterEnvs
  /\ customFile = NoFile
  /\ configFile = NoFile
  /\ config = EmptyMap
  /\ hasCustomConfig = FALSE
  /\ pc = "custom"
  /\ exitCode = -1
  /\ merged = EmptyMap
  /\ startFile = configFile
  /\ prevEnv = NoEnv

\* the variables set in the runs that exercise what the script leaves alone: a
\* built-in and a custom provider, a channel, two tools and the gateway token
FrameVars ==
  {"ANTHROPIC_API_KEY", "VENICE_API_KEY", "TELEGRAM_BOT_TOKEN", "DEEPGRAM_API_KEY",
   "OPENCLAW_GATEWAY_TOKEN", "HOOKS_ENABLED"}

\* paths no section of the script writes, next to the ones it writes
FramePaths ==
  {<<"custom">>, <<"gateway", "custom">>, <<"gateway", "controlUi", "custom">>,
   <<"agents", "custom">>, <<"agents", "defaults", "custom">>,
   <<"agents", "defaults", "model", "fallbacks">>, <<"models", "custom">>,
   <<"models", "providers", "custom">>, <<"channels", "custom">>,
   <<"tools", "custom">>, <<"tools", "media", "custom">>}

\* the values a layer holds at these paths
FrameValues(who) ==
  {Str(<<who>>), Num(0), List(<<Str(<<who>>)>>), Single(<<who>>, Str(<<who>>)), EmptyMap}

\* a document with x at every path of the set P
RECURSIVE WithAll(_, _, _)
WithAll(d, P, x) ==
  IF P = {} THEN d
  ELSE LET p == CHOOSE q \in P : TRUE
       IN WithAll(deepMerge(d, Single(p, x)), P \ {p}, x)

\* the documents of a layer: one value at every such path, a channels value
\* without keys, a null where the script expects an object
FrameDocs(who) ==
  {EmptyMap} \cup {WithAll(EmptyMap, FramePaths, x) : x \in FrameValues(who)}
  \cup {Single(<<"channels">>, List(<<>>)), Single(<<"channels">>, EmptyMap),
        Single(<<"tools", "media">>, Null)}

InitFrame ==
  InitOver(FrameVars, MaxEnvVars, {NoFile} \cup {Json(d) : d \in FrameDocs("base")},
           {NoFile} \cup {Json(d) : d \in FrameDocs("persisted")})

InitCsv ==
  /\ env \in CsvEnvs
  /\ customFile = NoFile
  /\ configFile = NoFile
  /\ config = EmptyMap
  /\ hasCustomConfig = FALSE
  /\ pc = "custom"
  /\ exitCode = -1
  /\ merged = EmptyMap
  /\ startFile = configFile
  /\ prevEnv = NoEnv

InitFiles ==
  InitOver({"ANTHROPIC_API_KEY"}, 1, Files(MergeDocs), Files(MergeDocs))

InitSignals ==
  InitOver(SignalVars \cup {"OPENCLAW_PRIMARY_MODEL"}, MaxEnvVars - 1,
           {NoFile},
           {NoFile, Json(Single(PrimaryPath, Str(<<"persisted", "/model">>)))})

\* the load of the custom config with the flag set as soon as the file is read
LoadCustomFlagOnRead ==
  /\ pc = "custom"
  /\ IF customFile.k = "json"
     THEN config' = customFile.doc /\ hasCustomConfig' = TRUE
     ELSE config' = EmptyMap /\ hasCustomConfig' = (customFile.k = "garbage")
  /\ pc' = "persisted"
  /\ UNCHANGED <<env, customFile, configFile, exitCode, merged, startFile, prevEnv>>

\* 1. Load user-provided custom config as base (if mounted)
LoadCustom ==
  /\ pc = "custom"
  /\ IF customFile.k = "json"
     THEN config' = customFile.doc /\ hasCustomConfig' = TRUE
     ELSE config' = EmptyMap /\ hasCustomConfig' = FALSE
  /\ pc' = "persisted"
  /\ UNCHANGED <<env, customFile, configFile, exitCode, merged, startFile, prevEnv>>

\* 2. Merge persisted config on top
MergePersisted ==
  /\ pc = "persisted"
  /\ config' = IF configFile.k = "json" THEN deepMerge(config, configFile.doc) ELSE config
  /\ merged' = config'
  /\ pc' = "env"
  /\ UNCHANGED <<env, customFile, configFile, hasCustomConfig, exitCode, startFile, prevEnv>>

\* 3. Env vars override on top: gateway, agents, providers, primary model,
\* channels, hooks, browser
ApplyEnv ==
  /\ pc = "env"
  /\ \E c1 \in {GatewaySection(config, env)} :
     \E c2 \in {BuiltinProviders(c1, hasCustomConfig)} :
     \E c3 \in {CustomProviders(c2, env, hasCustomConfig)} :
     \E c4 \in {PrimaryModel(c3, env)} :
     \E c5 \in {Channels(Deepgram(c4, env), env)} :
       config' = ToolsSection(c5, env)
  /\ pc' = "validate"
  /\ UNCHANGED <<env, customFile, configFile, hasCustomConfig, exitCode, merged,
                 startFile, prevEnv>>

\* if (!hasProvider) process.exit(1)
ExitNoProvider ==
  /\ pc = "validate"
  /\ ~hasProvider(env)
  /\ exitCode' = 1
  /\ pc' = "exited"
  /\ UNCHANGED <<env, customFile, configFile, config, hasCustomConfig, merged,
                 startFile, prevEnv>>

\* fs.writeFileSync(CONFIG_FILE, JSON.stringify(config, null, 2))
WriteConfig ==
  /\ pc = "validate"
  /\ hasProvider(env)
  /\ configFile' = Json(Stringify(config))
  /\ exitCode' = 0
  /\ pc' = "done"
  /\ UNCHANGED <<env, customFile, config, hasCustomConfig, merged, startFile, prevEnv>>

\* the container starts again, with the same environment or with one variable removed
Restart ==
  /\ pc \in {"done", "exited"}
  /\ \E S \in {DOMAIN env} \cup {DOMAIN env \ {v} : v \in DOMAIN env} :
       env' = [v \in S |-> env[v]]
  /\ prevEnv' = env
  /\ startFile' = configFile
  /\ config' = EmptyMap
  /\ hasCustomConfig' = FALSE
  /\ merged' = EmptyMap
  /\ exitCode' = -1
  /\ pc' = "custom"
  /\ UNCHANGED <<customFile, configFile>>

Next ==
  \/ LoadCustom
  \/ MergePersisted
  \/ ApplyEnv
  \/ ExitNoProvider
  \/ WriteConfig
  \/ Restart

Spec == Init /\ [][Next]_vars

SpecSlots == InitSlots /\ [][Next]_vars

SpecSignals == InitSignals /\ [][Next]_vars

SpecFiles == InitFiles /\ [][Next]_vars

SpecOrder == InitOrder /\ [][Next]_vars

SpecDefaults == InitDefaults /\ [][Next]_vars

SpecCsv == InitCsv /\ [][Next]_vars

SpecFilter == InitFilter /\ [][Next]_vars
SpecFrame == InitFrame /\ [][Next]_vars

\* ------------------------------------------------------------------ properties

\* the three layers of the current start and the document it wrote
Base == IF customFile.k = "json" THEN customFile.doc ELSE EmptyMap
Persisted == IF startFile.k = "json" THEN startFile.doc ELSE EmptyMap
Out == IF configFile.k = "json" THEN configFile.doc ELSE EmptyMap
Written == pc = "done"

\* the paths of a document that hold something other than a map
RECURSIVE LeafPaths(_)
LeafPaths(v) ==
  IF v.t = "map"
  THEN UNION {{<<k>> \o p : p \in LeafPaths(v.m[k])} : k \in DOMAIN v.m}
  ELSE {<<>>}

IsPrefix(p, q) == Len(p) <= Len(q) /\ SubSeq(q, 1, Len(p)) = p

\* the custom providers the environment activates
ActiveCustom(e) ==
  {n \in {"venice", "minimax", "moonshot", "kimi-coding", "synthetic", "xiaomi"} :
     \/ (n = "venice" /\ EnvSet(e, "VENICE_API_KEY"))
     \/ (n = "minimax" /\ EnvSet(e, "MINIMAX_API_KEY"))
     \/ (n = "moonshot" /\ EnvSet(e, "MOONSHOT_API_KEY"))
     \/ (n = "kimi-coding" /\ EnvSet(e, "KIMI_API_KEY"))
     \/ (n = "synthetic" /\ EnvSet(e, "SYNTHETIC_API_KEY"))
     \/ (n = "xiaomi" /\ EnvSet(e, "XIAOMI_API_KEY"))}
  \cup (IF EnvSet(e, "AWS_ACCESS_KEY_ID") /\ EnvSet(e, "AWS_SECRET_ACCESS_KEY")
        THEN {"amazon-bedrock"} ELSE {})
  \cup (IF StripSlashes(Env(e, "OLLAMA_BASE_URL")) # <<>> THEN {"ollama"} ELSE {})

\* the blocks a start with environment e writes as a whole
ReplacedBlocks(e) ==
  {<<"models", "providers", n>> : n \in ActiveCustom(e)}
  \cup (IF "amazon-bedrock" \in ActiveCustom(e) THEN {<<"models", "bedrockDiscovery">>} ELSE {})
  \cup (IF Env(e, "WHATSAPP_ENABLED") \in {<<"true">>, <<"1">>}
        THEN {<<"channels", "whatsapp">>} ELSE {})

InReplacedBlock(e, p) == \E b \in ReplacedBlocks(e) : IsPrefix(b, p)

\* the number a well-formed decimal text denotes
RECURSIVE Decimal(_)
Decimal(s) == IF s = <<>> THEN 0 ELSE 10 * Decimal(SubSeq(s, 1, Len(s) - 1)) + DigitVal(s[Len(s)])

\* the leaves that the variables of CoreVars set, each with the value set
EnvLeaves(e) ==
  (IF EnvSet(e, "OPENCLAW_GATEWAY_PORT")
   THEN {<<<<"gateway", "port">>, Num(Decimal(e["OPENCLAW_GATEWAY_PORT"]))>>} ELSE {})
  \cup (IF EnvSet(e, "OPENCLAW_PRIMARY_MODEL")
        THEN {<<PrimaryPath, Str(e["OPENCLAW_PRIMARY_MODEL"])>>} ELSE {})

EnvPaths(e) == {x[1] : x \in EnvLeaves(e)}

\* what the precedence of the layers gives at leaf path p of the base document
Precedence(p) ==
  IF p \in LeafPaths(Persisted) /\ p \in EnvPaths(env)
  THEN \A x \in EnvLeaves(env) : x[1] = p => GetPath(Out, p) = x[2]
  ELSE IF p \in LeafPaths(Persisted) /\ p \notin EnvPaths(env)
  THEN GetPath(Out, p) = GetPath(Persisted, p)
  ELSE IF p \notin LeafPaths(Persisted) /\ p \notin EnvPaths(env)
  THEN GetPath(Out, p) = GetPath(Base, p)
  ELSE TRUE

SameShape(p) ==
  /\ \A i \in 0..(Len(p) - 1) : GetPath(Persisted, SubSeq(p, 1, i)).t \in {"map", "undef"}
  /\ GetPath(Persisted, p).t # "map"

BuiltInNames ==
  {"anthropic", "openai", "openrouter", "google", "xai", "groq", "mistral", "cerebras",
   "zai", "vercel-ai-gateway", "github-copilot", "opencode"}

ProviderPath(n) == <<"models", "providers", n>>

HoldsBuiltIn(d) == \E n \in BuiltInNames : GetPath(d, ProviderPath(n)).t = "map"

BaseLoaded == customFile.k = "json"

\* C2 as stated: under every combination of base, persisted and environment, the
\* written document holds no sub-document at models.providers.<name> for a
\* built-in provider.
C2_AnyInputs == Written => ~HoldsBuiltIn(Out)

\* C2 amended: when no base document was loaded the written document holds no
\* sub-document at models.providers.<name> for a built-in provider; when a base
\* document was loaded, the built-in entries of the merged document are written
\* as they are.
C2_BuiltInProviders ==
  Written =>
    IF BaseLoaded
    THEN \A n \in BuiltInNames : GetPath(Out, ProviderPath(n)) = GetPath(merged, ProviderPath(n))
    ELSE ~HoldsBuiltIn(Out)

\* C2 witness: no base document, the persisted document held built-in entries,
\* and the document written holds none
C2_Witness ==
  /\ Written
  /\ ~BaseLoaded
  /\ \A n \in BuiltInNames : GetPath(Persisted, ProviderPath(n)).t = "map"
  /\ ~HoldsBuiltIn(Out)

\* ---------------------------------------------------------------- C3

\* a provider activation signal: a built-in or custom provider key, both AWS
\* variables, or a non-empty OLLAMA_BASE_URL
SignalPresent(e) ==
  \/ \E v \in SignalVars \ {"AWS_ACCESS_KEY_ID", "AWS_SECRET_ACCESS_KEY", "OLLAMA_BASE_URL"} :
       EnvSet(e, v)
  \/ (EnvSet(e, "AWS_ACCESS_KEY_ID") /\ EnvSet(e, "AWS_SECRET_ACCESS_KEY"))
  \/ EnvSet(e, "OLLAMA_BASE_URL")

\* C3: with no provider activation signal the start never writes: the persisted
\* file stays as it was when the start began (absent included), the only way on
\* from validation is the exit, and the exit status is 1.
C3_FailClosed ==
  ~SignalPresent(env) =>
    /\ pc # "done"
    /\ exitCode # 0
    /\ configFile = startFile
    /\ (pc = "validate" => ENABLED ExitNoProvider /\ ~ENABLED WriteConfig)
    /\ (pc = "exited" => exitCode = 1)

\* C3 witness: a start without a signal has exited with status 1, the document
\* it built in memory differs from the persisted file, and the file is untouched
C3_Witness ==
  /\ pc = "exited"
  /\ exitCode = 1
  /\ ~SignalPresent(env)
  /\ startFile.k = "json"
  /\ Stringify(config) # startFile.doc
  /\ configFile = startFile

\* ---------------------------------------------------------------- C4

CustomNames ==
  {"venice", "minimax", "moonshot", "kimi-coding", "synthetic", "xiaomi",
   "amazon-bedrock", "ollama"}

WhatsAppOn(e) == Env(e, "WHATSAPP_ENABLED") \in {<<"true">>, <<"1">>}

\* the provider and channel slots, and what activates each
SlotPaths == {ProviderPath(n) : n \in CustomNames} \cup ChannelPaths

SlotActive(e, p) ==
  CASE p = <<"channels", "telegram">> -> EnvSet(e, "TELEGRAM_BOT_TOKEN")
    [] p = <<"channels", "discord">> -> EnvSet(e, "DISCORD_BOT_TOKEN")
    [] p = <<"channels", "slack">> -> EnvSet(e, "SLACK_BOT_TOKEN") /\ EnvSet(e, "SLACK_APP_TOKEN")
    [] p = <<"channels", "whatsapp">> -> WhatsAppOn(e)
    [] p = <<"hooks">> -> Env(e, "HOOKS_ENABLED") \in {<<"true">>, <<"1">>}
    [] p = <<"browser">> -> EnvSet(e, "BROWSER_CDP_URL")
    [] p = <<"tools", "media", "audio">> -> EnvSet(e, "DEEPGRAM_API_KEY")
    [] OTHER -> p[3] \in ActiveCustom(e)

C5_StaleProviderCleanup ==
  (Written /\ ~BaseLoaded) =>
    \A n \in CustomNames \ ActiveCustom(env) : GetPath(Out, ProviderPath(n)).t # "map"

\* C5 witness: the start before this one had VENICE_API_KEY and left a venice
\* entry in the persisted document; the variable is gone, no base document is
\* loaded, and the document written has no venice entry
C5_Witness ==
  /\ Written
  /\ ~BaseLoaded
  /\ EnvSet(prevEnv, "VENICE_API_KEY")
  /\ ~EnvSet(env, "VENICE_API_KEY")
  /\ GetPath(Persisted, ProviderPath("venice")).t = "map"
  /\ GetPath(Out, ProviderPath("venice")).t = "undef"

\* ---------------------------------------------------------------- C6

\* C6 as stated: a channel that the start before this one configured from its
\* environment, and whose variable has been removed since, has no block in the
\* document this start writes.
C6_ChannelCleaned ==
  (Written /\ hasProvider(prevEnv)) =>
    \A p \in ChannelPaths :
      (SlotActive(prevEnv, p) /\ ~SlotActive(env, p)) => GetPath(Out, p).t = "undef"

\* ---------------------------------------------------------------- C7

\* C7: when WhatsApp is activated the written channels.whatsapp block holds
\* enabled = true and the fields this start's environment supplies, each with the
\* value coerced from its variable, and nothing else.
C7_WhatsAppOverwrite ==
  (Written /\ WhatsAppOn(env)) =>
    LET wa == GetPath(Out, <<"channels", "whatsapp">>)
        set == {i \in 1..Len(WhatsAppFields) : EnvSet(env, WhatsAppFields[i][1])}
    IN /\ wa.t = "map"
       /\ Get(wa, "enabled") = Bool(TRUE)
       /\ LeafPaths(wa) = {<<"enabled">>} \cup {WhatsAppFields[i][2] : i \in set}
       /\ \A i \in set :
            GetPath(wa, WhatsAppFields[i][2])
              = Stringify(Coerce(WhatsAppFields[i][3], env[WhatsAppFields[i][1]]))

\* C7 witness: the merged document held a whatsapp block with other fields,
\* WhatsApp is activated with WHATSAPP_DM_POLICY, and the block written is
\* exactly enabled and dmPolicy
C7_Witness ==
  /\ Written
  /\ WhatsAppOn(env)
  /\ EnvSet(env, "WHATSAPP_DM_POLICY")
  /\ GetPath(merged, <<"channels", "whatsapp", "legacy">>).t = "str"
  /\ GetPath(Out, <<"channels", "whatsapp">>)
       = Map([k \in {"enabled", "dmPolicy"} |->
               IF k = "enabled" THEN Bool(TRUE) ELSE Str(env["WHATSAPP_DM_POLICY"])])

\* ---------------------------------------------------------------- C8

\* the paths, inside a slot's block, that a start with environment e supplies
FieldsOf(table, e) ==
  {table[i][2] : i \in {j \in 1..Len(table) : EnvSet(e, table[j][1])}}

Supplied(e, p) ==
  CASE p = <<"channels", "telegram">> ->
         {<<"botToken">>, <<"enabled">>} \cup FieldsOf(TelegramFields, e)
    [] p = <<"channels", "discord">> ->
         {<<"token">>, <<"enabled">>} \cup FieldsOf(DiscordFields, e)
    [] p = <<"channels", "slack">> ->
         {<<"botToken">>, <<"appToken">>, <<"enabled">>} \cup FieldsOf(SlackFields, e)
    [] p = <<"hooks">> ->
         {<<"enabled">>} \cup (IF EnvSet(e, "HOOKS_TOKEN") THEN {<<"token">>} ELSE {})
                         \cup (IF EnvSet(e, "HOOKS_PATH") THEN {<<"path">>} ELSE {})
    [] p = <<"browser">> ->
         {<<"cdpUrl">>} \cup FieldsOf(BrowserFields, e)
           \cup (IF EnvDefined(e, "BROWSER_EVALUATE_ENABLED") THEN {<<"evaluateEnabled">>} ELSE {})
    [] p = <<"tools", "media", "audio">> -> {<<"enabled">>, <<"models">>}
    [] p \in {ProviderPath("amazon-bedrock"), ProviderPath("ollama")} ->
         {<<"api">>, <<"baseUrl">>, <<"models">>}
    [] OTHER -> {<<"api">>, <<"apiKey">>, <<"baseUrl">>, <<"models">>}

\* the slots other than WhatsApp that are written onto what the merged document holds
MergeOntoSlots == (ChannelPaths \ {<<"channels", "whatsapp">>}) \cup ToolPaths

\* every field of the merged block at p that this start does not supply is
\* written with the value it had
KeepsOtherFields(p) ==
  LET old == GetPath(merged, p)
  IN old.t = "map" =>
       \A q \in LeafPaths(old) :
         (\A f \in Supplied(env, p) : ~IsPrefix(f, q) /\ ~IsPrefix(q, f))
         => GetPath(Out, p \o q) = GetPath(old, q)

\* C8 as stated: every activated slot other than WhatsApp, custom providers
\* included, keeps the fields of its block that this start does not supply.
C8_AllSlotsMergeOnto ==
  Written =>
    \A p \in MergeOntoSlots \cup {ProviderPath(n) : n \in CustomNames} :
      SlotActive(env, p) => KeepsOtherFields(p)

\* C8 amended: an activated Telegram, Discord or Slack channel, the hooks, the
\* browser and the Deepgram audio block keep the fields that this start does not
\* supply (a custom provider's entry is written as a whole).
C8_MergeOnto ==
  Written => \A p \in MergeOntoSlots : SlotActive(env, p) => KeepsOtherFields(p)

\* C8 witness: the merged telegram block held a field no variable supplies,
\* Telegram is activated with TELEGRAM_DM_POLICY, and the block written holds the
\* old field next to the token and the policy of the environment
C8_Witness ==
  /\ Written
  /\ EnvSet(env, "TELEGRAM_BOT_TOKEN")
  /\ EnvSet(env, "TELEGRAM_DM_POLICY")
  /\ GetPath(merged, <<"channels", "telegram", "legacy">>).t = "str"
  /\ GetPath(merged, <<"channels", "telegram", "dmPolicy">>) # Str(env["TELEGRAM_DM_POLICY"])
  /\ GetPath(Out, <<"channels", "telegram", "legacy">>)
       = GetPath(merged, <<"channels", "telegram", "legacy">>)
  /\ GetPath(Out, <<"channels", "telegram", "dmPolicy">>) = Str(env["TELEGRAM_DM_POLICY"])
  /\ GetPath(Out, <<"channels", "telegram", "botToken">>) = Str(env["TELEGRAM_BOT_TOKEN"])

\* ---------------------------------------------------------------- C9

\* the priority order: the variables of a provider, whether all of them or any
\* one of them is its activation signal, and its model
PriorityOrder ==
  << <<{"ANTHROPIC_API_KEY"}, "any", <<"anthropic/claude-opus-4-5-20251101">> >>,
     <<{"OPENAI_API_KEY"}, "any", <<"openai/gpt-5.2">> >>,
     <<{"OPENROUTER_API_KEY"}, "any", <<"openrouter/anthropic/claude-opus-4-5">> >>,
     <<{"GEMINI_API_KEY"}, "any", <<"google/gemini-2.5-pro">> >>,
     <<{"OPENCODE_API_KEY", "OPENCODE_ZEN_API_KEY"}, "any", <<"opencode/claude-opus-4-5">> >>,
     <<{"COPILOT_GITHUB_TOKEN"}, "any", <<"github-copilot/claude-opus-4-5">> >>,
     <<{"XAI_API_KEY"}, "any", <<"xai/grok-3">> >>,
     <<{"GROQ_API_KEY"}, "any", <<"groq/llama-3.3-70b-versatile">> >>,
     <<{"MISTRAL_API_KEY"}, "any", <<"mistral/mistral-large-latest">> >>,
     <<{"CEREBRAS_API_KEY"}, "any", <<"cerebras/llama-3.3-70b">> >>,
     <<{"VENICE_API_KEY"}, "any", <<"venice/llama-3.3-70b">> >>,
     <<{"MOONSHOT_API_KEY"}, "any", <<"moonshot/kimi-k2.5">> >>,
     <<{"KIMI_API_KEY"}, "any", <<"kimi-coding/k2p5">> >>,
     <<{"MINIMAX_API_KEY"}, "any", <<"minimax/MiniMax-M2.1">> >>,
     <<{"SYNTHETIC_API_KEY"}, "any", <<"synthetic/hf:MiniMaxAI/MiniMax-M2.1">> >>,
     <<{"ZAI_API_KEY"}, "any", <<"zai/glm-4.7">> >>,
     <<{"AI_GATEWAY_API_KEY"}, "any", <<"vercel-ai-gateway/anthropic/claude-opus-4.5">> >>,
     <<{"XIAOMI_API_KEY"}, "any", <<"xiaomi/mimo-v2-flash">> >>,
     <<{"AWS_ACCESS_KEY_ID", "AWS_SECRET_ACCESS_KEY"}, "all",
       <<"amazon-bedrock/", "anthropic.claude-opus-4-5-20251101-v1:0">> >>,
     <<{"OLLAMA_BASE_URL"}, "any", <<"ollama/llama3.3">> >> >>

Signalled(e, entry) ==
  IF entry[2] = "all" THEN \A v \in entry[1] : EnvSet(e, v)
  ELSE \E v \in entry[1] : EnvSet(e, v)

\* the model of the first entry of the priority order whose signal is present
FirstSignalled(e) ==
  LET on == {i \in 1..Len(PriorityOrder) : Signalled(e, PriorityOrder[i])}
  IN IF on = {} THEN Undef
     ELSE Str(PriorityOrder[CHOOSE i \in on : \A j \in on : i <= j][3])

\* C9 as stated: the primary model written is the override variable when set,
\* otherwise the value of the merged document when there is one, otherwise the
\* model of the first provider of the priority order whose signal is present.
C9_SelectionRule ==
  Written =>
    GetPath(Out, PrimaryPath) =
      IF EnvSet(env, "OPENCLAW_PRIMARY_MODEL") THEN Str(env["OPENCLAW_PRIMARY_MODEL"])
      ELSE IF GetPath(merged, PrimaryPath).t # "undef" THEN GetPath(merged, PrimaryPath)
      ELSE FirstSignalled(env)

\* ---------------------------------------------------------------- C10

C11_PrimaryFollowsKeys ==
  (Written /\ ~EnvSet(env, "OPENCLAW_PRIMARY_MODEL")) =>
    /\ EnvSet(env, "ANTHROPIC_API_KEY")
       => GetPath(Out, PrimaryPath) = Str(<<"anthropic/claude-opus-4-5-20251101">>)
    /\ (EnvSet(env, "OPENAI_API_KEY") /\ ~EnvSet(env, "ANTHROPIC_API_KEY"))
       => GetPath(Out, PrimaryPath) = Str(<<"openai/gpt-5.2">>)

\* ---------------------------------------------------------------- C12

\* C12: a start with the environment of the start before it (and the same base
\* file), reading the document that start wrote, writes that same document.
C12_Idempotence == (Written /\ prevEnv = env) => Out = Persisted

\* C12 witness: the second of two starts with the same environment, with a base
\* document whose venice entry the start replaces, has written the document it read
C12_Witness ==
  /\ Written
  /\ prevEnv = env
  /\ BaseLoaded
  /\ EnvSet(env, "VENICE_API_KEY")
  /\ GetPath(Base, ProviderPath("venice") \o <<"note">>).t = "str"
  /\ Out # Base
  /\ Out = Persisted

\* ---------------------------------------------------------------- C13

\* r is the merge of source s into target t: the keys of both; a key of s whose
\* values in t and s are both maps is merged in turn, any other key of s has the
\* value of s; a key of t alone keeps its value
RECURSIVE IsMergeOf(_, _, _)
IsMergeOf(t, s, r) ==
  /\ r.t = "map"
  /\ DOMAIN r.m = DOMAIN t.m \cup DOMAIN s.m
  /\ \A k \in DOMAIN r.m :
       IF k \notin DOMAIN s.m THEN r.m[k] = t.m[k]
       ELSE IF s.m[k].t = "map" /\ k \in DOMAIN t.m /\ t.m[k].t = "map"
            THEN IsMergeOf(t.m[k], s.m[k], r.m[k])
            ELSE r.m[k] = s.m[k]

\* C13: the document after the persisted config was merged into the base is the
\* merge of the two, and wherever the persisted document holds a list the merged
\* document holds exactly that list.
C13_DeepMerge ==
  (pc \notin {"custom", "persisted"} /\ startFile.k = "json") =>
    /\ IsMergeOf(Base, Persisted, merged)
    /\ \A p \in LeafPaths(Persisted) :
         GetPath(Persisted, p).t = "list" => GetPath(merged, p) = GetPath(Persisted, p)

\* C13 witness: base and persisted hold different lists at a.x, only the base
\* holds b, and the merged document holds the persisted list and the base's b
C13_Witness ==
  /\ pc = "env"
  /\ GetPath(Base, <<"a", "x">>) = List(<<Num(1)>>)
  /\ GetPath(Persisted, <<"a", "x">>) = List(<<Num(2), Num(3)>>)
  /\ GetPath(Base, <<"b">>) = Num(1)
  /\ GetPath(Persisted, <<"b">>).t = "undef"
  /\ GetPath(merged, <<"a", "x">>) = List(<<Num(2), Num(3)>>)
  /\ GetPath(merged, <<"b">>) = Num(1)

\* ---------------------------------------------------------------- C17

\* C17: hasCustomConfig is true exactly when the custom config was read and
\* parsed; a custom or persisted file that is missing or not JSON counts as an
\* empty document; and the start goes on: both loading steps are enabled
\* whatever the files are, the write is enabled when a provider signal is
\* present, and no exit happens while one is.
C17_SoftFailLoading ==
  /\ pc # "custom" => hasCustomConfig = (customFile.k = "json")
  /\ pc = "persisted" => config = (IF customFile.k = "json" THEN customFile.doc ELSE EmptyMap)
  /\ pc \notin {"custom", "persisted"} =>
       /\ customFile.k # "json" => merged = Persisted
       /\ startFile.k # "json" => merged = Base
  /\ pc = "custom" => ENABLED LoadCustom
  /\ pc = "persisted" => ENABLED MergePersisted
  /\ (pc = "validate" /\ SignalPresent(env)) => ENABLED WriteConfig
  /\ SignalPresent(env) => exitCode # 1

\* C17 witness: neither file parses, and the start has written a document from
\* an empty merged document with hasCustomConfig false
C17_Witness ==
  /\ Written
  /\ customFile = Garbage
  /\ startFile = Garbage
  /\ ~hasCustomConfig
  /\ merged = EmptyMap
  /\ exitCode = 0
  /\ configFile.k = "json"

\* ---------------------------------------------------------------- C14

\* a model of a provider entry: { id, name, contextWindow }
IsModel(v) ==
  /\ v.t = "map"
  /\ Get(v, "id").t = "str" /\ Get(v, "id").s # <<>>
  /\ Get(v, "name").t = "str"
  /\ Get(v, "contextWindow").t = "num"

\* the base URL variable of provider n is set and consists of slashes only
SlashesOnly(e, n) ==
  \/ n = "moonshot" /\ EnvSet(e, "MOONSHOT_BASE_URL")
       /\ StripSlashes(Env(e, "MOONSHOT_BASE_URL")) = <<>>
  \/ n = "kimi-coding" /\ EnvSet(e, "KIMI_BASE_URL")
       /\ StripSlashes(Env(e, "KIMI_BASE_URL")) = <<>>

\* an entry with an api kind, a base URL and a non-empty list of models
HasShape(v) ==
  /\ v.t = "map"
  /\ Get(v, "api").t = "str" /\ Get(v, "api").s # <<>>
  /\ Get(v, "baseUrl").t = "str"
  /\ Get(v, "models").t = "list"
  /\ Len(Get(v, "models").l) > 0
  /\ \A i \in 1..Len(Get(v, "models").l) : IsModel(Get(v, "models").l[i])

\* C14 as stated: every custom provider sub-document of the written document,
\* whichever layer it came from, has an api kind, a non-empty base URL and a
\* non-empty list of models with id, name and contextWindow.
C14_AnyLayer ==
  Written =>
    \A n \in CustomNames :
      GetPath(Out, ProviderPath(n)).t = "map"
      => /\ HasShape(GetPath(Out, ProviderPath(n)))
         /\ GetPath(Out, ProviderPath(n) \o <<"baseUrl">>).s # <<>>

\* C14 amended: the entry of every custom provider that this start activates has
\* that shape (the base URL being empty only when MOONSHOT_BASE_URL or
\* KIMI_BASE_URL consists of slashes); the entry of a provider it does not
\* activate is written as the merged document holds it when a base document was
\* loaded, and is no sub-document otherwise.
C14_ProviderShape ==
  Written =>
    \A n \in CustomNames :
      IF n \in ActiveCustom(env)
      THEN /\ HasShape(GetPath(Out, ProviderPath(n)))
           /\ (GetPath(Out, ProviderPath(n) \o <<"baseUrl">>).s = <<>> => SlashesOnly(env, n))
      ELSE IF BaseLoaded
           THEN GetPath(Out, ProviderPath(n)) = GetPath(merged, ProviderPath(n))
           ELSE GetPath(Out, ProviderPath(n)).t # "map"

\* C14 witness: the persisted document held a venice entry without that shape,
\* VENICE_API_KEY and OLLAMA_BASE_URL are set, and both entries written have it
C14_Witness ==
  /\ Written
  /\ ~HasShape(GetPath(Persisted, ProviderPath("venice")))
  /\ GetPath(Persisted, ProviderPath("venice")).t # "undef"
  /\ EnvSet(env, "VENICE_API_KEY")
  /\ "ollama" \in ActiveCustom(env)
  /\ HasShape(GetPath(Out, ProviderPath("venice")))
  /\ HasShape(GetPath(Out, ProviderPath("ollama")))

\* ---------------------------------------------------------------- C15

\* a provider activation condition holds: a provider key, both AWS variables, or
\* an OLLAMA_BASE_URL that is not empty once its trailing slashes are removed
ActivationHolds(e) ==
  \/ \E v \in SignalVars \ {"AWS_ACCESS_KEY_ID", "AWS_SECRET_ACCESS_KEY", "OLLAMA_BASE_URL"} :
       EnvSet(e, v)
  \/ (EnvSet(e, "AWS_ACCESS_KEY_ID") /\ EnvSet(e, "AWS_SECRET_ACCESS_KEY"))
  \/ StripSlashes(Env(e, "OLLAMA_BASE_URL")) # <<>>

\* the validation passes exactly when cond holds, whatever the documents are
PassesIff(cond) ==
  /\ pc = "validate" => (ENABLED WriteConfig <=> cond) /\ (ENABLED ExitNoProvider <=> ~cond)
  /\ pc = "done" => cond
  /\ pc = "exited" => ~cond

\* C15 as stated: validation passes exactly when a provider key, both AWS
\* variables or a non-empty OLLAMA_BASE_URL is set, whatever the documents hold.
C15_AnySignal == PassesIff(SignalPresent(env))

\* C15 amended: validation passes exactly when a provider key or both AWS
\* variables are set, or OLLAMA_BASE_URL is not empty once its trailing slashes
\* are removed, whatever the documents hold.
C15_ValidationIffSignal == PassesIff(ActivationHolds(env))

\* C15 witness: the merged document holds provider entries with API keys, the
\* environment holds one AWS variable only, and the start has exited
C15_Witness ==
  /\ pc = "exited"
  /\ exitCode = 1
  /\ GetPath(merged, ProviderPath("anthropic") \o <<"apiKey">>).t = "str"
  /\ EnvSet(env, "AWS_ACCESS_KEY_ID")
  /\ ~ActivationHolds(env)

\* ---------------------------------------------------------------- C16

ModelPath == <<"agents", "defaults", "model">>

\* no entry of the priority list matches the environment
NoCandidate(e) ==
  \A i \in 1..Len(primaryCandidates(e)) : primaryCandidates(e)[i][1] = <<>>

\* the primary model of a document is a non-empty value
PrimarySet(d) ==
  /\ Truthy(GetPath(d, PrimaryPath))
  /\ GetPath(d, PrimaryPath) # Str(<<>>)

\* the merged document holds a string, number, boolean or array at
\* agents.defaults.model, where a primary cannot be stored
ModelNotObject == Truthy(GetPath(merged, ModelPath)) /\ GetPath(merged, ModelPath).t # "map"

\* C16 as stated: every start that writes the document writes a non-empty
\* agents.defaults.model.primary.
C16_AlwaysPrimary == Written => PrimarySet(Out)

\* C16 amended: every start that writes the document writes a non-empty
\* agents.defaults.model.primary, unless the merged document holds a truthy
\* non-object value at agents.defaults.model, which is then written unchanged;
\* a start with no override, no pinned value and no matching priority entry
\* fails validation.
C16_PrimarySet ==
  /\ Written =>
       IF ModelNotObject
       THEN GetPath(Out, ModelPath) = GetPath(merged, ModelPath)
       ELSE PrimarySet(Out)
  /\ (pc = "validate" /\ NoCandidate(env)) => (ENABLED ExitNoProvider /\ ~ENABLED WriteConfig)
  /\ pc = "done" => ~NoCandidate(env)

\* C16 witness: no override, nothing pinned, only the last priority entry
\* matches, and the document is written with its model
C16_Witness ==
  /\ Written
  /\ ~EnvSet(env, "OPENCLAW_PRIMARY_MODEL")
  /\ ~Truthy(GetPath(merged, PrimaryPath))
  /\ ~ModelNotObject
  /\ \A i \in 1..(Len(primaryCandidates(env)) - 1) : primaryCandidates(env)[i][1] = <<>>
  /\ GetPath(Out, PrimaryPath) = Str(<<"ollama/llama3.3">>)

\* ---------------------------------------------------------------- C18

\* the paths, inside a slot's block, of the table fields whose variable is not set
UnsetOf(table, e) ==
  {table[i][2] : i \in {j \in 1..Len(table) : ~EnvSet(e, table[j][1])}}

UnsetFields(e, p) ==
  CASE p = <<"channels", "telegram">> -> UnsetOf(TelegramFields, e)
    [] p = <<"channels", "discord">> -> UnsetOf(DiscordFields, e)
    [] p = <<"channels", "slack">> -> UnsetOf(SlackFields, e)
    [] p = <<"hooks">> ->
         (IF EnvSet(e, "HOOKS_TOKEN") THEN {} ELSE {<<"token">>})
           \cup (IF EnvSet(e, "HOOKS_PATH") THEN {} ELSE {<<"path">>})
    [] p = <<"browser">> ->
         UnsetOf(BrowserFields, e)
           \cup (IF EnvDefined(e, "BROWSER_EVALUATE_ENABLED") THEN {} ELSE {<<"evaluateEnabled">>})

FieldSlots == MergeOntoSlots \ {<<"tools", "media", "audio">>}

\* C18: in an activated Telegram, Discord, Slack, hooks or browser slot, the
\* field of every table variable that is not set is written with the value the
\* merged document holds for it, and stays absent when the merged document has none.
C18_AbsenceKeeps ==
  Written =>
    \A p \in FieldSlots :
      SlotActive(env, p) =>
        \A q \in UnsetFields(env, p) : GetPath(Out, p \o q) = GetPath(merged, p \o q)

\* C18 witness: Telegram is activated without TELEGRAM_DM_POLICY over a merged
\* block that holds a policy and no group policy, and the written document
\* holds the token, the old policy and no group policy
C18_Witness ==
  /\ Written
  /\ EnvSet(env, "TELEGRAM_BOT_TOKEN")
  /\ ~EnvSet(env, "TELEGRAM_DM_POLICY")
  /\ GetPath(merged, <<"channels", "telegram", "dmPolicy">>).t = "str"
  /\ GetPath(merged, <<"channels", "telegram", "groupPolicy">>).t = "undef"
  /\ GetPath(Out, <<"channels", "telegram", "botToken">>) = Str(env["TELEGRAM_BOT_TOKEN"])
  /\ GetPath(Out, <<"channels", "telegram", "dmPolicy">>)
       = GetPath(merged, <<"channels", "telegram", "dmPolicy">>)
  /\ GetPath(Out, <<"channels", "telegram", "groupPolicy">>).t = "undef"

\* ---------------------------------------------------------------- C19

\* the slots in the order of the script
SlotOrder ==
  <<"builtin", "venice", "minimax", "moonshot", "kimi-coding", "synthetic", "xiaomi",
    "amazon-bedrock", "ollama", "deepgram", "telegram", "discord", "slack", "whatsapp",
    "hooks", "browser">>

\* the step of the script for one slot
SlotStep(s, c, e, h) ==
  CASE s = "builtin" -> BuiltinProviders(c, h)
    [] s = "venice" -> Venice(c, e, h)
    [] s = "minimax" -> MiniMax(c, e, h)
    [] s = "moonshot" -> Moonshot(c, e, h)
    [] s = "kimi-coding" -> KimiCoding(c, e, h)
    [] s = "synthetic" -> Synthetic(c, e, h)
    [] s = "xiaomi" -> Xiaomi(c, e, h)
    [] s = "amazon-bedrock" -> Bedrock(c, e, h)
    [] s = "ollama" -> Ollama(c, e, h)
    [] s = "deepgram" -> Deepgram(c, e)
    [] s = "telegram" -> Telegram(c, e)
    [] s = "discord" -> Discord(c, e)
    [] s = "slack" -> Slack(c, e)
    [] s = "whatsapp" -> WhatsApp(c, e)
    [] s = "hooks" -> Hooks(c, e)
    [] s = "browser" -> Browser(c, e)

\* the slot steps in the given order from entry i on, then the primary model
\* and the cleanup of an empty channels object, give the document target
RECURSIVE RunSlotsGives(_, _, _, _, _, _)
RunSlotsGives(c, e, h, order, i, target) ==
  IF i > Len(order) THEN CleanChannels(PrimaryModel(c, e)) = target
  ELSE \E d \in {SlotStep(order[i], c, e, h)} : RunSlotsGives(d, e, h, order, i + 1, target)

\* the run over the merged document with the slots taken in the given order,
\* after the gateway and agents defaults, gives the document target
ConfigureInOrderGives(c, e, h, order, target) ==
  \E g \in {GatewaySection(c, e)} : RunSlotsGives(g, e, h, order, 1, target)

Reverse(q) == [i \in 1..Len(q) |-> q[Len(q) + 1 - i]]
Rotate(q, k) == [i \in 1..Len(q) |-> q[((i + k - 1) % Len(q)) + 1]]

\* the order of the script, its reverse, and two orders that put channels and
\* tools before providers
Orders == {SlotOrder, Reverse(SlotOrder), Rotate(SlotOrder, 9), Reverse(Rotate(SlotOrder, 4))}

\* the entry of a slot this start does not activate is removed exactly when no
\* base document was loaded, the slot is a provider slot and the merged
\* document holds an entry for it
CleanedOwn(p) ==
  /\ ~hasCustomConfig
  /\ p \in {ProviderPath(n) : n \in CustomNames \cup BuiltInNames}
  /\ Truthy(GetPath(merged, p))

\* C19: taking the provider, channel, hooks and browser slots in another order
\* gives the same document; the entry of a slot that is not activated is removed
\* or kept by hasCustomConfig and the slot's own entry alone, whatever the other
\* slots hold and whichever of them are activated.
C19_OrderIndependence ==
  /\ pc = "validate" =>
       \A o \in Orders : ConfigureInOrderGives(merged, env, hasCustomConfig, o, config)
  /\ Written =>
       \A p \in SlotPaths \cup {ProviderPath(n) : n \in BuiltInNames} \cup ToolPaths :
         ~SlotActive(env, p)
         => GetPath(Out, p) = (IF CleanedOwn(p) THEN Undef ELSE GetPath(merged, p))

\* C19 witness: without a base document, the persisted document holds blocks
\* for venice, Bedrock and Telegram; Venice and Telegram are activated, so the
\* Bedrock entry alone is removed; the reversed order gives the written document
C19_Witness ==
  /\ Written
  /\ ~hasCustomConfig
  /\ EnvSet(env, "VENICE_API_KEY")
  /\ EnvSet(env, "TELEGRAM_BOT_TOKEN")
  /\ GetPath(merged, ProviderPath("amazon-bedrock")).t = "map"
  /\ GetPath(merged, ProviderPath("venice")).t = "map"
  /\ GetPath(Out, ProviderPath("amazon-bedrock")).t = "undef"
  /\ GetPath(Out, ProviderPath("venice")).t = "map"
  /\ ConfigureInOrderGives(merged, env, hasCustomConfig, Reverse(SlotOrder), config)
  /\ Out = Json(Stringify(config)).doc

\* ---------------------------------------------------------------- C20

\* the default of a path
DefaultOf(e, p) ==
  CASE p = <<"gateway", "port">> -> Num(18789)
    [] p = <<"gateway", "mode">> -> Str(<<"local">>)
    [] p = <<"gateway", "trustedProxies">> -> defaultProxies
    [] p = <<"agents", "defaults", "workspace">> -> Str(WORKSPACE_DIR(e))
    [] OTHER -> Bool(TRUE)

\* the variable that overrides a path is set
Overridden(e, p) ==
  \/ (p = <<"gateway", "port">> /\ EnvSet(e, "OPENCLAW_GATEWAY_PORT"))
  \/ (p = <<"gateway", "trustedProxies">> /\ EnvSet(e, "OPENCLAW_TRUSTED_PROXIES"))

\* the script finds a value at the path: a defined one for the controlUi flags,
\* a truthy one for the other paths
Found(v, p) ==
  IF p \in {<<"gateway", "controlUi", "allowInsecureAuth">>, <<"gateway", "controlUi", "enabled">>}
  THEN v.t # "undef"
  ELSE Truthy(v)

C21_NoBuiltInEntry ==
  Written =>
    \A n \in BuiltInNames :
      /\ ~BaseLoaded => ~Truthy(GetPath(Out, ProviderPath(n)))
      /\ Truthy(GetPath(Out, ProviderPath(n)))
           => GetPath(Out, ProviderPath(n)) = GetPath(merged, ProviderPath(n))

\* C21 witness: no base document, ANTHROPIC_API_KEY is set, the persisted
\* document held an anthropic and an opencode entry, and the written document
\* holds neither
C21_Witness ==
  /\ Written
  /\ ~BaseLoaded
  /\ EnvSet(env, "ANTHROPIC_API_KEY")
  /\ GetPath(Persisted, ProviderPath("anthropic")).t = "map"
  /\ GetPath(Persisted, ProviderPath("opencode")).t = "map"
  /\ GetPath(Out, ProviderPath("anthropic")).t = "undef"
  /\ GetPath(Out, ProviderPath("opencode")).t = "undef"

\* ---------------------------------------------------------------- C22

\* a text that reads as an integer: an optional sign and one or more digits
IsIntegerText(t) ==
  LET u == IF t # <<>> /\ Head(t) \in {"-", "+"} THEN Tail(t) ELSE t
  IN u # <<>> /\ \A i \in 1..Len(u) : IsDigit(u[i])

\* the list the allowlist coercion is described to give: the pieces between
\* commas, trimmed, an integer for a piece that reads as one and the piece
\* itself, empty or not, otherwise
DescribedList(s) ==
  LET parts == Split(s, <<>>)
  IN List([i \in 1..Len(parts) |->
            IF IsIntegerText(Trim(parts[i])) THEN Number(Trim(parts[i]))
            ELSE Str(Trim(parts[i]))])

\* C22: with Telegram activated, allowFrom and groupAllowFrom are written as the
\* comma-split, trimmed list of their variable, an element being an integer
\* exactly when it reads as one and a string otherwise, the empty element of a
\* trailing or doubled comma included.
C22_CsvNumericList ==
  (Written /\ EnvSet(env, "TELEGRAM_BOT_TOKEN")) =>
    /\ EnvSet(env, "TELEGRAM_ALLOW_FROM")
         => GetPath(Out, <<"channels", "telegram", "allowFrom">>)
              = DescribedList(env["TELEGRAM_ALLOW_FROM"])
    /\ EnvSet(env, "TELEGRAM_GROUP_ALLOW_FROM")
         => GetPath(Out, <<"channels", "telegram", "groupAllowFrom">>)
              = DescribedList(env["TELEGRAM_GROUP_ALLOW_FROM"])

\* ---------------------------------------------------------------- C23

BedrockOn(e) == EnvSet(e, "AWS_ACCESS_KEY_ID") /\ EnvSet(e, "AWS_SECRET_ACCESS_KEY")

FilterPath == <<"models", "bedrockDiscovery", "providerFilter">>

\* C23: whenever Bedrock is activated, the written providerFilter is a list:
\* ["anthropic"] when BEDROCK_PROVIDER_FILTER is not set, the parsed array when
\* the text is a JSON array, the one parsed value when it is a JSON scalar, and
\* the trimmed pieces between commas when it is not JSON.
C23_ProviderFilter ==
  (Written /\ BedrockOn(env)) =>
    LET text == Env(env, "BEDROCK_PROVIDER_FILTER")
        parsed == JsonParse(text)
        out == GetPath(Out, FilterPath)
    IN /\ out.t = "list"
       /\ ~EnvSet(env, "BEDROCK_PROVIDER_FILTER") => out = List(<<Str(<<"anthropic">>)>>)
       /\ EnvSet(env, "BEDROCK_PROVIDER_FILTER") =>
            /\ parsed.t = "list" => out = parsed
            /\ parsed.t \in {"str", "num", "bool", "null"} => out = List(<<parsed>>)
            /\ parsed.t = "fail"
                 => /\ Len(out.l) = Len(Split(text, <<>>))
                    /\ \A i \in 1..Len(out.l) : out.l[i] = Str(Trim(Split(text, <<>>)[i]))

\* C23 witness: Bedrock is activated with a filter that is a JSON string, and
\* the written filter is the list of that one string
C23_Witness ==
  /\ Written
  /\ BedrockOn(env)
  /\ Env(env, "BEDROCK_PROVIDER_FILTER") = <<"\"", "a", "\"">>
  /\ GetPath(Out, FilterPath) = List(<<Str(<<"a">>)>>)

\* ---------------------------------------------------------------- C24

\* C24: a primary model taken from the priority list (no override, nothing in
\* the merged document) is the model of a provider whose own activation
\* condition holds in this start; for amazon-bedrock that is both AWS variables.
C24_AutoPrimaryActive ==
  (Written /\ ~EnvSet(env, "OPENCLAW_PRIMARY_MODEL") /\ ~Truthy(GetPath(merged, PrimaryPath))) =>
    \E i \in 1..Len(PriorityOrder) :
      /\ GetPath(Out, PrimaryPath) = Str(PriorityOrder[i][3])
      /\ Signalled(env, PriorityOrder[i])

\* ---------------------------------------------------------------- C25

\* the custom providers a document holds a sub-document for
CustomEntries(d) == {n \in CustomNames : GetPath(d, ProviderPath(n)).t = "map"}

DiscoveryPath == <<"models", "bedrockDiscovery">>

\* C26: without a base document, the persisted document holds
\* models.bedrockDiscovery exactly when it holds models.providers.amazon-bedrock,
\* after every start.
C26_DiscoveryWithBedrock ==
  ~BaseLoaded =>
    /\ GetPath(Out, DiscoveryPath).t # "undef"
         <=> GetPath(Out, ProviderPath("amazon-bedrock")).t # "undef"
    /\ GetPath(Persisted, DiscoveryPath).t # "undef"
         <=> GetPath(Persisted, ProviderPath("amazon-bedrock")).t # "undef"

\* C26 witness: the start before activated Bedrock and wrote both blocks; this
\* start has an AWS variable removed and writes neither
C26_Witness ==
  /\ Written
  /\ ~BaseLoaded
  /\ BedrockOn(prevEnv)
  /\ ~BedrockOn(env)
  /\ GetPath(Persisted, DiscoveryPath).t = "map"
  /\ GetPath(Persisted, ProviderPath("amazon-bedrock")).t = "map"
  /\ GetPath(Out, DiscoveryPath).t = "undef"
  /\ GetPath(Out, ProviderPath("amazon-bedrock")).t = "undef"

\* ------------------------------------------------------------------ C27

\* the paths of a document that end in something other than a map with keys
RECURSIVE EndPaths(_)
EndPaths(v) ==
  IF v.t = "map" /\ DOMAIN v.m # {}
  THEN UNION {{<<k>> \o p : p \in EndPaths(v.m[k])} : k \in DOMAIN v.m}
  ELSE {<<>>}

\* the paths a section of the script writes: the gateway and agents defaults and
\* the gateway token, the provider, channel and tool slots, the primary model
WrittenPaths ==
  DefaultPaths \cup {<<"gateway", "auth">>}
  \cup {ProviderPath(n) : n \in BuiltInNames \cup CustomNames} \cup {DiscoveryPath}
  \cup ChannelPaths \cup ToolPaths \cup {PrimaryPath}

\* p lies at or under a path the script writes
UnderWritten(p) == \E u \in WrittenPaths : IsPrefix(u, p)

\* p lies above a path the script writes
AboveWritten(p) == \E u \in WrittenPaths : IsPrefix(p, u) /\ p # u

\* the written document holds at p what the merged document holds; an object
\* without keys may have gained keys
Carried(p) ==
  IF GetPath(merged, p) = EmptyMap
  THEN GetPath(Out, p).t = "map"
  ELSE GetPath(Out, p) = GetPath(merged, p)

\* C27 as stated: every path of the merged document that is not a gateway or
\* agents default path, a slot target path, the primary-model path or an empty
\* channels map is in the written document with its value unchanged.
C27_AnyPathCarried ==
  Written =>
    \A p \in EndPaths(merged) :
      (~UnderWritten(p) /\ ~(p = <<"channels">> /\ GetPath(merged, p) = EmptyMap))
        => Carried(p)

\* no channel is activated by the environment
NoChannel(e) == \A p \in ChannelPaths : ~SlotActive(e, p)

\* C27: every path of the merged document is in the written document with its
\* value unchanged, unless it lies at or under a path the script writes, or is a
\* channels value without keys (an empty object or an empty array) in a run that
\* activates no channel, or holds a falsy value above a path the script writes.
C27_Frame ==
  Written =>
    \A p \in EndPaths(merged) :
      (/\ ~UnderWritten(p)
       /\ ~(p = <<"channels">> /\ KeyCount(GetPath(merged, p)) = 0 /\ NoChannel(env))
       /\ ~(AboveWritten(p) /\ ~Truthy(GetPath(merged, p))))
        => Carried(p)

\* a start with a channel, a tool and a custom provider active wrote a document
\* that still holds the unknown channel, tool and provider of the merged one
C27_Witness ==
  /\ Written
  /\ EnvSet(env, "TELEGRAM_BOT_TOKEN") /\ EnvSet(env, "DEEPGRAM_API_KEY")
  /\ EnvSet(env, "VENICE_API_KEY")
  /\ \A p \in FramePaths : GetPath(merged, p).t = "list" /\ GetPath(Out, p) = GetPath(merged, p)
  /\ GetPath(Out, <<"channels", "telegram">>).t = "map"
  /\ GetPath(Out, <<"tools", "media", "audio">>).t = "map"
  /\ GetPath(Out, ProviderPath("venice")).t = "map"

====
